---- MODULE Spec2Model ----
(***************************************************************************)
(* Market-cycle signal monitor (market_signal_monitor_v2.py).              *)
(*                                                                         *)
(* A candle series is a sequence of rows.  A row carries the raw candle    *)
(* (c, h, l, v) and the indicator columns written by calculate_indicators. *)
(* An indicator cell is an optional number: <<>> is NaN/None, <<x>> is x.  *)
(* Prices are whole dollars; chain metrics are scaled by ChainScale.       *)
(***************************************************************************)
EXTENDS Integers, Sequences, FiniteSets, TLC

\* ---------------------------------------------------------------- bounds

\* A frame is MaxTail or fewer freely chosen rows (the rows the rules read
\* one by one are the last three), behind ShortHist or LongHist older rows.
MaxTail == 3
ShortHist == 7
LongHist == 47

\* ------------------------------------------------------ program constants

\* prev2 = df.iloc[-3] if len(df) >= 3: the rules address the last 3 rows.
Lookback == 3
\* check_market_signals gives up below 50 weekly candles.
MinCandles == 50
\* df[...].tail(20) for support / resistance, tail(10) for RSI and divergence.
SupportWindow == 20
MomentumWindow == 10
\* chain metrics are kept in hundredths: 5.0 is 500, 1.0 is 100.
ChainScale == 100

\* ------------------------------------------------------- optional numbers

NaN == <<>>
Some(x) == <<x>>
notna(x) == x # <<>>

Max2(a, b) == IF a >= b THEN a ELSE b
Min2(a, b) == IF a <= b THEN a ELSE b

\* Series.iloc[-k]
iloc(df, k) == df[Len(df) + 1 - k]

\* Series.tail(n): the last n rows (all of them when the series is shorter).
tail(df, n) == IF Len(df) <= n THEN df ELSE SubSeq(df, Len(df) - n + 1, Len(df))

\* max / min of a raw column (never NaN) over a non-empty window.
RECURSIVE ColMax(_, _, _)
ColMax(w, col, i) ==
    IF i = 1 THEN w[1][col] ELSE Max2(w[i][col], ColMax(w, col, i - 1))

RECURSIVE ColMin(_, _, _)
ColMin(w, col, i) ==
    IF i = 1 THEN w[1][col] ELSE Min2(w[i][col], ColMin(w, col, i - 1))

\* Series.max() / Series.min() of an indicator column: NaN cells are skipped,
\* the result is NaN when every cell is NaN.
RECURSIVE CellMax(_, _, _)
CellMax(w, col, i) ==
    IF i = 0 THEN NaN
    ELSE LET rest == CellMax(w, col, i - 1)
             x == w[i][col]
         IN  IF ~notna(x) THEN rest
             ELSE IF ~notna(rest) THEN x
             ELSE Some(Max2(x[1], rest[1]))

RECURSIVE CellMin(_, _, _)
CellMin(w, col, i) ==
    IF i = 0 THEN NaN
    ELSE LET rest == CellMin(w, col, i - 1)
             x == w[i][col]
         IN  IF ~notna(x) THEN rest
             ELSE IF ~notna(rest) THEN x
             ELSE Some(Min2(x[1], rest[1]))

\* a < b, a > b, a >= b, a <= b on floats that may be NaN: any comparison
\* with NaN is False.
lt(a, b) == notna(a) /\ notna(b) /\ a[1] < b[1]
gt(a, b) == notna(a) /\ notna(b) /\ a[1] > b[1]
ge(a, b) == notna(a) /\ notna(b) /\ a[1] >= b[1]
le(a, b) == notna(a) /\ notna(b) /\ a[1] <= b[1]

\* ---------------------------------------------------------------- verdicts

\* One entry of the reasons dict: its key and the verdict string, kept as the
\* leading mark, the points printed in "[N分]", the wording and the numbers
\* formatted into it.
Verdict(key, mark, stated, text, args) ==
    [key |-> key, mark |-> mark, stated |-> stated, text |-> text, args |-> args]

\* What one rule does: the exception it raises (if any), what it adds to
\* score, and what it stores in reasons.
Step(add, entries) == [exc |-> "none", add |-> add, entries |-> entries]
Throw(e) == [exc |-> e, add |-> 0, entries |-> <<>>]

\* The value of a scoring call: (score, reasons), or the exception raised.
Raised(e) == [exc |-> e, score |-> 0, reasons |-> <<>>]
Returned(score, reasons) == [exc |-> "none", score |-> score, reasons |-> reasons]

\* The rules run top to bottom; the first exception ends the call.
RECURSIVE RunRules(_, _, _, _)
RunRules(steps, i, score, reasons) ==
    IF i > Len(steps) THEN Returned(score, reasons)
    ELSE IF steps[i].exc # "none" THEN Raised(steps[i].exc)
    ELSE RunRules(steps, i + 1, score + steps[i].add, reasons \o steps[i].entries)

\* ------------------------------------------------------------ chain data

\* chain_data: None, an empty dict, or {'mvrv_z_score': m, 'sopr': s} whose
\* values may be None.
NoChain == [kind |-> "None", mvrv_z_score |-> NaN, sopr |-> NaN]
EmptyDict == [kind |-> "empty", mvrv_z_score |-> NaN, sopr |-> NaN]
ChainDict(m, s) == [kind |-> "dict", mvrv_z_score |-> m, sopr |-> s]

\* The test written as "chain_data is not None": an empty dict passes it.
ChainSupplied_NotNone(chain_data) == chain_data.kind # "None"

\* "if chain_data:" - None and {} are falsy.
ChainSupplied(chain_data) == chain_data.kind = "dict"

\* "if mvrv and ...": None and 0.0 are falsy.
truthy(x) == notna(x) /\ x[1] # 0

\* f"{x:.2f if x else 'N/A'}": everything after the first colon is the format
\* spec, so formatting raises for a float (ValueError) and for None (TypeError).
BadFormat(x) == IF notna(x) THEN "ValueError" ELSE "TypeError"

\* ------------------------------------------------------ indicator columns

\* calculate_indicators always assigns the EMA, RSI, Volume_MA, OBV and ATR
\* columns; the MACD and Bollinger columns only when pandas_ta returned a
\* frame.  cols is the set of those two optional groups that exist.
AllColumns == {"BB", "MACD"}

\* row.get(col): None when the column does not exist.
get(cols, group, row, col) == IF group \in cols THEN row[col] ELSE NaN

\* ---------------------------------------------------------- bear rule-set

\* BearEMA20 counting a close below EMA20 on either bar as "1 week".
BearEMA20_EitherBar(latest, prev1) ==
    LET below(r) == notna(r.EMA_20) /\ r.c < r.EMA_20[1]
    IN  IF below(latest) /\ below(prev1)
        THEN Step(20, <<Verdict("EMA_20", "pass", 20, "below EMA20 for 2 weeks", <<>>)>>)
        ELSE IF below(latest) \/ below(prev1)
        THEN Step(10, <<Verdict("EMA_20", "partial", 10, "below EMA20 (1 week only)", <<>>)>>)
        ELSE Step(0, <<Verdict("EMA_20", "fail", 0, "price above EMA20", <<>>)>>)

\* BearEMA20 giving the full 20 points only to a close more than 5% under EMA20.
BearEMA20_DeepOnly(latest, prev1) ==
    IF notna(latest.EMA_20) /\ latest.c < latest.EMA_20[1]
    THEN IF notna(prev1.EMA_20) /\ prev1.c < prev1.EMA_20[1]
            /\ 100 * latest.c < 95 * latest.EMA_20[1]
         THEN Step(20, <<Verdict("EMA_20", "pass", 20, "below EMA20 for 2 weeks", <<>>)>>)
         ELSE Step(10, <<Verdict("EMA_20", "partial", 10, "below EMA20 (1 week only)", <<>>)>>)
    ELSE Step(0, <<Verdict("EMA_20", "fail", 0, "price above EMA20", <<>>)>>)

BearEMA20(latest, prev1) ==
    IF notna(latest.EMA_20) /\ latest.c < latest.EMA_20[1]
    THEN IF notna(prev1.EMA_20) /\ prev1.c < prev1.EMA_20[1]
         THEN Step(20, <<Verdict("EMA_20", "pass", 20, "below EMA20 for 2 weeks", <<>>)>>)
         ELSE Step(10, <<Verdict("EMA_20", "partial", 10, "below EMA20 (1 week only)", <<>>)>>)
    ELSE Step(0, <<Verdict("EMA_20", "fail", 0, "price above EMA20", <<>>)>>)

BearEMA50(latest) ==
    IF notna(latest.EMA_50) /\ latest.c < latest.EMA_50[1]
    THEN Step(10, <<Verdict("EMA_50", "pass", 10, "price below EMA50", <<>>)>>)
    ELSE Step(0, <<Verdict("EMA_50", "fail", 0, "price above EMA50", <<>>)>>)

BearDeathCross(latest) ==
    IF notna(latest.EMA_50) /\ notna(latest.EMA_200)
    THEN IF latest.EMA_50[1] < latest.EMA_200[1]
         THEN Step(10, <<Verdict("Death_Cross", "pass", 10, "death cross", <<>>)>>)
         ELSE Step(0, <<Verdict("Death_Cross", "fail", 0, "no death cross", <<>>)>>)
    ELSE Step(0, <<>>)

\* BearLowerLow taking an equal low for a lower one.
BearLowerLow_NotHigher(latest, prev1) ==
    IF latest.l <= prev1.l
    THEN Step(10, <<Verdict("Lower_Low", "pass", 10, "lower low", <<latest.l, prev1.l>>)>>)
    ELSE Step(0, <<Verdict("Lower_Low", "fail", 0, "no lower low", <<>>)>>)

BearLowerLow(latest, prev1) ==
    IF latest.l < prev1.l
    THEN Step(10, <<Verdict("Lower_Low", "pass", 10, "lower low", <<latest.l, prev1.l>>)>>)
    ELSE Step(0, <<Verdict("Lower_Low", "fail", 0, "no lower low", <<>>)>>)

\* BearSupport measuring the support over the bars before the latest one.
BearSupport_PriorBars(df, latest) ==
    IF Len(df) < 2
    THEN Step(0, <<Verdict("Support", "fail", 0, "support holds", <<>>)>>)
    ELSE LET w == tail(SubSeq(df, 1, Len(df) - 1), SupportWindow)
             recent_support == ColMin(w, "l", Len(w))
         IN  IF 100 * latest.c < 98 * recent_support
             THEN Step(8, <<Verdict("Support", "pass", 8, "support broken", <<recent_support>>)>>)
             ELSE Step(0, <<Verdict("Support", "fail", 0, "support holds", <<>>)>>)

BearSupport(df, latest) ==
    LET w == tail(df, SupportWindow)
        recent_support == ColMin(w, "l", Len(w))
    IN  IF 100 * latest.c < 98 * recent_support
        THEN Step(8, <<Verdict("Support", "pass", 8, "support broken", <<recent_support>>)>>)
        ELSE Step(0, <<Verdict("Support", "fail", 0, "support holds", <<>>)>>)

BearBB(cols, latest) ==
    IF "BB" \notin cols THEN Throw("KeyError")
    ELSE IF notna(latest.BB_lower) /\ latest.c < latest.BB_lower[1]
    THEN Step(7, <<Verdict("BB_Breakdown", "pass", 7, "below lower band", <<>>)>>)
    ELSE Step(0, <<Verdict("BB_Breakdown", "fail", 0, "not below lower band", <<>>)>>)

BearRSI(df, latest, prev1) ==
    IF notna(latest.RSI_14) /\ notna(prev1.RSI_14)
    THEN LET w == tail(df, MomentumWindow)
             rsi_was_overbought == gt(CellMax(w, "RSI_14", Len(w)), Some(70))
         IN  IF rsi_was_overbought /\ latest.RSI_14[1] < prev1.RSI_14[1]
             THEN Step(8, <<Verdict("RSI", "pass", 8, "RSI falling from overbought", latest.RSI_14)>>)
             ELSE IF latest.RSI_14[1] < 30
             THEN Step(4, <<Verdict("RSI", "partial", 4, "RSI oversold", latest.RSI_14)>>)
             ELSE Step(0, <<Verdict("RSI", "fail", 0, "RSI neutral", latest.RSI_14)>>)
    ELSE Step(0, <<>>)

BearMACD(cols, latest, prev1) ==
    LET m0 == get(cols, "MACD", latest, "MACD")
        s0 == get(cols, "MACD", latest, "MACD_signal")
        m1 == get(cols, "MACD", prev1, "MACD")
        s1 == get(cols, "MACD", prev1, "MACD_signal")
    IN  IF notna(m0) /\ notna(s0) /\ notna(m1) /\ notna(s1)
        THEN IF m0[1] < s0[1] /\ m1[1] >= s1[1]
             THEN Step(7, <<Verdict("MACD", "pass", 7, "MACD death cross", <<>>)>>)
             ELSE IF m0[1] < s0[1]
             THEN Step(3, <<Verdict("MACD", "partial", 3, "MACD negative", <<>>)>>)
             ELSE Step(0, <<Verdict("MACD", "fail", 0, "MACD positive", <<>>)>>)
        ELSE Step(0, <<>>)

BearDivergence(df, latest) ==
    IF Len(df) >= MomentumWindow
    THEN LET w == tail(df, MomentumWindow)
             recent_price_high == ColMax(w, "h", Len(w))
             recent_rsi_high == CellMax(w, "RSI_14", Len(w))
         IN  IF /\ 100 * latest.h >= 98 * recent_price_high
                /\ notna(latest.RSI_14) /\ notna(recent_rsi_high)
                /\ 100 * latest.RSI_14[1] < 95 * recent_rsi_high[1]
             THEN Step(5, <<Verdict("Divergence", "pass", 5, "bearish divergence", <<>>)>>)
             ELSE Step(0, <<Verdict("Divergence", "fail", 0, "no divergence", <<>>)>>)
    ELSE Step(0, <<>>)

\* BearVolume with the partial branch adding the full 5 points.
BearVolume_PartialAddsFive(latest, prev1) ==
    IF notna(latest.Volume_MA) /\ latest.v > latest.Volume_MA[1]
    THEN IF latest.c < prev1.c
         THEN Step(5, <<Verdict("Volume", "pass", 5, "falling on volume", <<>>)>>)
         ELSE Step(5, <<Verdict("Volume", "partial", 2, "volume up, price not falling", <<>>)>>)
    ELSE Step(0, <<Verdict("Volume", "fail", 0, "falling on thin volume", <<>>)>>)

BearVolume(latest, prev1) ==
    IF notna(latest.Volume_MA) /\ latest.v > latest.Volume_MA[1]
    THEN IF latest.c < prev1.c
         THEN Step(5, <<Verdict("Volume", "pass", 5, "falling on volume", <<>>)>>)
         ELSE Step(2, <<Verdict("Volume", "partial", 2, "volume up, price not falling", <<>>)>>)
    ELSE Step(0, <<Verdict("Volume", "fail", 0, "falling on thin volume", <<>>)>>)

BearOBV(latest, prev1) ==
    IF notna(latest.OBV) /\ notna(prev1.OBV)
    THEN IF latest.OBV[1] < prev1.OBV[1]
         THEN Step(5, <<Verdict("OBV", "pass", 5, "OBV falling", <<>>)>>)
         ELSE Step(0, <<Verdict("OBV", "fail", 0, "OBV rising", <<>>)>>)
    ELSE Step(0, <<>>)

BearMVRV(chain_data) ==
    LET mvrv == chain_data.mvrv_z_score
    IN  IF truthy(mvrv) /\ mvrv[1] > 5 * ChainScale
        THEN Step(3, <<Verdict("MVRV", "pass", 3, "MVRV overheated", mvrv)>>)
        ELSE Throw(BadFormat(mvrv))

\* BearSOPR recording a failed verdict instead of raising.
BearSOPR_FailsQuietly(chain_data) ==
    LET sopr == chain_data.sopr
    IN  IF truthy(sopr) /\ sopr[1] < 1 * ChainScale
        THEN Step(2, <<Verdict("SOPR", "pass", 2, "aSOPR below 1.0", sopr)>>)
        ELSE Step(0, <<Verdict("SOPR", "fail", 0, "aSOPR at or above 1.0", sopr)>>)

BearSOPR(chain_data) ==
    LET sopr == chain_data.sopr
    IN  IF truthy(sopr) /\ sopr[1] < 1 * ChainScale
        THEN Step(2, <<Verdict("SOPR", "pass", 2, "aSOPR below 1.0", sopr)>>)
        ELSE Throw(BadFormat(sopr))

ChainUnavailable ==
    Step(0, <<Verdict("Chain_Data", "info", 0, "chain data unavailable", <<>>)>>)

BearChain(chain_data) ==
    IF ChainSupplied(chain_data)
    THEN <<BearMVRV(chain_data), BearSOPR(chain_data)>>
    ELSE <<ChainUnavailable>>

\* Lines 254-381: the rules in source order, on a frame of at least 2 rows.
BearRules(df, cols, chain_data) ==
    LET latest == iloc(df, 1)
        prev1 == iloc(df, 2)
    IN  RunRules(<<BearEMA20(latest, prev1),
                   BearEMA50(latest),
                   BearDeathCross(latest),
                   BearLowerLow(latest, prev1),
                   BearSupport(df, latest),
                   BearBB(cols, latest),
                   BearRSI(df, latest, prev1),
                   BearMACD(cols, latest, prev1),
                   BearDivergence(df, latest),
                   BearVolume(latest, prev1),
                   BearOBV(latest, prev1)>> \o BearChain(chain_data),
                 1, 0, <<>>)

\* calculate_bear_signal_score(df, chain_data) on a frame with columns cols:
\* df.iloc[-1] and df.iloc[-2] raise IndexError on a frame of 0 or 1 rows.
calculate_bear_signal_score(df, cols, chain_data) ==
    IF Len(df) < 2 THEN Raised("IndexError")
    ELSE BearRules(df, cols, chain_data)

\* ---------------------------------------------------------- bull rule-set

BullEMA20(latest, prev1, prev2) ==
    IF notna(latest.EMA_20) /\ notna(prev1.EMA_20) /\ notna(prev2.EMA_20)
    THEN LET above(r) == IF r.c > r.EMA_20[1] THEN 1 ELSE 0
             weeks_above == above(latest) + above(prev1) + above(prev2)
         IN  IF weeks_above >= 3
             THEN Step(20, <<Verdict("EMA_20", "pass", 20, "above EMA20 for 3 weeks", <<>>)>>)
             ELSE IF weeks_above = 2
             THEN Step(12, <<Verdict("EMA_20", "partial", 12, "above EMA20 for 2 weeks", <<>>)>>)
             ELSE IF weeks_above = 1
             THEN Step(6, <<Verdict("EMA_20", "partial", 6, "above EMA20 (1 week only)", <<>>)>>)
             ELSE Step(0, <<Verdict("EMA_20", "fail", 0, "price below EMA20", <<>>)>>)
    ELSE Step(0, <<>>)

\* BullEMA50 weighted 15 instead of 10.
BullEMA50_Weight15(latest) ==
    IF notna(latest.EMA_50) /\ latest.c > latest.EMA_50[1]
    THEN Step(15, <<Verdict("EMA_50", "pass", 15, "price above EMA50", <<>>)>>)
    ELSE Step(0, <<Verdict("EMA_50", "fail", 0, "price below EMA50", <<>>)>>)

BullEMA50(latest) ==
    IF notna(latest.EMA_50) /\ latest.c > latest.EMA_50[1]
    THEN Step(10, <<Verdict("EMA_50", "pass", 10, "price above EMA50", <<>>)>>)
    ELSE Step(0, <<Verdict("EMA_50", "fail", 0, "price below EMA50", <<>>)>>)

\* BullGoldenCross awarding its points while EMA50 is below EMA200.
BullGoldenCross_OnDeathCross(latest) ==
    IF notna(latest.EMA_50) /\ notna(latest.EMA_200)
    THEN IF latest.EMA_50[1] < latest.EMA_200[1]
         THEN Step(10, <<Verdict("Golden_Cross", "pass", 10, "golden cross", <<>>)>>)
         ELSE Step(0, <<Verdict("Golden_Cross", "fail", 0, "no golden cross", <<>>)>>)
    ELSE Step(0, <<>>)

BullGoldenCross(latest) ==
    IF notna(latest.EMA_50) /\ notna(latest.EMA_200)
    THEN IF latest.EMA_50[1] > latest.EMA_200[1]
         THEN Step(10, <<Verdict("Golden_Cross", "pass", 10, "golden cross", <<>>)>>)
         ELSE Step(0, <<Verdict("Golden_Cross", "fail", 0, "no golden cross", <<>>)>>)
    ELSE Step(0, <<>>)

BullHigherHigh(latest, prev1) ==
    IF latest.h > prev1.h
    THEN Step(10, <<Verdict("Higher_High", "pass", 10, "higher high", <<latest.h, prev1.h>>)>>)
    ELSE Step(0, <<Verdict("Higher_High", "fail", 0, "no higher high", <<>>)>>)

BullResistance(df, latest) ==
    LET w == tail(df, SupportWindow)
        recent_resistance == ColMax(w, "h", Len(w))
    IN  IF 100 * latest.c > 102 * recent_resistance
        THEN Step(8, <<Verdict("Resistance", "pass", 8, "resistance broken", <<recent_resistance>>)>>)
        ELSE Step(0, <<Verdict("Resistance", "fail", 0, "resistance holds", <<>>)>>)

BullBB(cols, latest) ==
    IF "BB" \notin cols THEN Throw("KeyError")
    ELSE IF notna(latest.BB_upper) /\ latest.c > latest.BB_upper[1]
    THEN Step(7, <<Verdict("BB_Breakout", "pass", 7, "above upper band", <<>>)>>)
    ELSE Step(0, <<Verdict("BB_Breakout", "fail", 0, "not above upper band", <<>>)>>)

BullRSI(df, latest, prev1) ==
    IF notna(latest.RSI_14) /\ notna(prev1.RSI_14)
    THEN LET w == tail(df, MomentumWindow)
             rsi_was_oversold == lt(CellMin(w, "RSI_14", Len(w)), Some(30))
         IN  IF rsi_was_oversold /\ latest.RSI_14[1] > prev1.RSI_14[1]
             THEN Step(8, <<Verdict("RSI", "pass", 8, "RSI rising from oversold", latest.RSI_14)>>)
             ELSE IF latest.RSI_14[1] > 70
             THEN Step(4, <<Verdict("RSI", "partial", 4, "RSI overbought", latest.RSI_14)>>)
             ELSE Step(0, <<Verdict("RSI", "fail", 0, "RSI neutral", latest.RSI_14)>>)
    ELSE Step(0, <<>>)

BullMACD(cols, latest, prev1) ==
    LET m0 == get(cols, "MACD", latest, "MACD")
        s0 == get(cols, "MACD", latest, "MACD_signal")
        m1 == get(cols, "MACD", prev1, "MACD")
        s1 == get(cols, "MACD", prev1, "MACD_signal")
    IN  IF notna(m0) /\ notna(s0) /\ notna(m1) /\ notna(s1)
        THEN IF m0[1] > s0[1] /\ m1[1] <= s1[1]
             THEN Step(7, <<Verdict("MACD", "pass", 7, "MACD golden cross", <<>>)>>)
             ELSE IF m0[1] > s0[1]
             THEN Step(3, <<Verdict("MACD", "partial", 3, "MACD positive", <<>>)>>)
             ELSE Step(0, <<Verdict("MACD", "fail", 0, "MACD negative", <<>>)>>)
        ELSE Step(0, <<>>)

BullDivergence(df, latest) ==
    IF Len(df) >= MomentumWindow
    THEN LET w == tail(df, MomentumWindow)
             recent_price_low == ColMin(w, "l", Len(w))
             recent_rsi_low == CellMin(w, "RSI_14", Len(w))
         IN  IF /\ 100 * latest.l <= 102 * recent_price_low
                /\ notna(latest.RSI_14) /\ notna(recent_rsi_low)
                /\ 100 * latest.RSI_14[1] > 105 * recent_rsi_low[1]
             THEN Step(5, <<Verdict("Divergence", "pass", 5, "bullish divergence", <<>>)>>)
             ELSE Step(0, <<Verdict("Divergence", "fail", 0, "no divergence", <<>>)>>)
    ELSE Step(0, <<>>)

BullVolume(latest, prev1) ==
    IF notna(latest.Volume_MA) /\ latest.v > latest.Volume_MA[1]
    THEN IF latest.c > prev1.c
         THEN Step(5, <<Verdict("Volume", "pass", 5, "rising on volume", <<>>)>>)
         ELSE Step(2, <<Verdict("Volume", "partial", 2, "volume up, price not rising", <<>>)>>)
    ELSE Step(0, <<Verdict("Volume", "fail", 0, "rising on thin volume", <<>>)>>)

\* BullOBV taking an unchanged OBV for a rising one.
BullOBV_NotFalling(latest, prev1) ==
    IF notna(latest.OBV) /\ notna(prev1.OBV)
    THEN IF latest.OBV[1] >= prev1.OBV[1]
         THEN Step(5, <<Verdict("OBV", "pass", 5, "OBV rising", <<>>)>>)
         ELSE Step(0, <<Verdict("OBV", "fail", 0, "OBV falling", <<>>)>>)
    ELSE Step(0, <<>>)

BullOBV(latest, prev1) ==
    IF notna(latest.OBV) /\ notna(prev1.OBV)
    THEN IF latest.OBV[1] > prev1.OBV[1]
         THEN Step(5, <<Verdict("OBV", "pass", 5, "OBV rising", <<>>)>>)
         ELSE Step(0, <<Verdict("OBV", "fail", 0, "OBV falling", <<>>)>>)
    ELSE Step(0, <<>>)

BullMVRV(chain_data) ==
    LET mvrv == chain_data.mvrv_z_score
    IN  IF truthy(mvrv) /\ 2 * mvrv[1] > ChainScale /\ mvrv[1] < 2 * ChainScale
        THEN Step(3, <<Verdict("MVRV", "pass", 3, "MVRV healthy", mvrv)>>)
        ELSE Throw(BadFormat(mvrv))

BullSOPR(chain_data) ==
    LET sopr == chain_data.sopr
    IN  IF truthy(sopr) /\ sopr[1] > 1 * ChainScale
        THEN Step(2, <<Verdict("SOPR", "pass", 2, "aSOPR above 1.0", sopr)>>)
        ELSE Throw(BadFormat(sopr))

BullChain(chain_data) ==
    IF ChainSupplied(chain_data)
    THEN <<BullMVRV(chain_data), BullSOPR(chain_data)>>
    ELSE <<ChainUnavailable>>

\* Lines 404-539: the rules in source order, on a frame of at least 2 rows.
BullRules(df, cols, chain_data) ==
    LET latest == iloc(df, 1)
        prev1 == iloc(df, 2)
        prev2 == IF Len(df) >= Lookback THEN iloc(df, 3) ELSE prev1
    IN  RunRules(<<BullEMA20(latest, prev1, prev2),
                   BullEMA50(latest),
                   BullGoldenCross(latest),
                   BullHigherHigh(latest, prev1),
                   BullResistance(df, latest),
                   BullBB(cols, latest),
                   BullRSI(df, latest, prev1),
                   BullMACD(cols, latest, prev1),
                   BullDivergence(df, latest),
                   BullVolume(latest, prev1),
                   BullOBV(latest, prev1)>> \o BullChain(chain_data),
                 1, 0, <<>>)

\* calculate_bull_signal_score refusing every frame shorter than Lookback.
calculate_bull_signal_score_NeedsThree(df, cols, chain_data) ==
    IF Len(df) < Lookback THEN Raised("IndexError")
    ELSE BullRules(df, cols, chain_data)

\* calculate_bull_signal_score(df, chain_data) on a frame with columns cols.
calculate_bull_signal_score(df, cols, chain_data) ==
    IF Len(df) < 2 THEN Raised("IndexError")
    ELSE BullRules(df, cols, chain_data)

\* ------------------------------------------------------------ the alert

\* The empty string alert_message starts as.
EmptyMessage ==
    [signal_type |-> "", title |-> "", price |-> 0, score |-> 0,
     lines |-> <<>>, recommendation |-> ""]

title_map(signal_type) ==
    CASE signal_type = "STRONG_BEAR" -> "strong bearish signal"
      [] signal_type = "BEAR" -> "bearish signal"
      [] signal_type = "STRONG_BULL" -> "strong bullish signal"
      [] signal_type = "BULL" -> "bullish signal"
      [] OTHER -> "market signal"

recommendation_map(signal_type) ==
    CASE signal_type = "STRONG_BEAR" -> "cut exposure 50-100%"
      [] signal_type = "BEAR" -> "cut exposure 25-50%"
      [] signal_type = "STRONG_BULL" -> "raise exposure 50-100%"
      [] signal_type = "BULL" -> "raise exposure 25-50%"
      [] OTHER -> "keep watching"

\* generate_alert_message listing the verdicts last to first.
generate_alert_message_ReversedLines(signal_type, score, reasons, latest_data) ==
    [signal_type |-> signal_type,
     title |-> title_map(signal_type),
     price |-> latest_data.c,
     score |-> score,
     lines |-> [i \in 1..Len(reasons) |-> reasons[Len(reasons) + 1 - i]],
     recommendation |-> recommendation_map(signal_type)]

\* generate_alert_message(signal_type, score, reasons, latest_data): title,
\* price and score lines, one line per reasons entry in dict order, then the
\* recommendation.
generate_alert_message(signal_type, score, reasons, latest_data) ==
    [signal_type |-> signal_type,
     title |-> title_map(signal_type),
     price |-> latest_data.c,
     score |-> score,
     lines |-> reasons,
     recommendation |-> recommendation_map(signal_type)]

\* alert_subject, priority, alert_message and what was printed, as the locals
\* of check_market_signals stand before the bear block.
NoDecision ==
    [alert_subject |-> "", priority |-> "low", alert_message |-> EmptyMessage,
     printed |-> <<>>]

\* BearBlock with the Strong band starting above 90 instead of at 90.
BearBlock_StrongAbove90(d, bear_score, bear_reasons, latest) ==
    IF bear_score > 90
    THEN [d EXCEPT !.alert_subject = "strong bear", !.priority = "high",
                   !.alert_message = generate_alert_message("STRONG_BEAR", bear_score, bear_reasons, latest)]
    ELSE IF bear_score >= 70
    THEN [d EXCEPT !.alert_subject = "bear", !.priority = "medium",
                   !.alert_message = generate_alert_message("BEAR", bear_score, bear_reasons, latest)]
    ELSE IF bear_score >= 50
    THEN [d EXCEPT !.alert_subject = "bear watch", !.priority = "low",
                   !.printed = Append(@, "bear watch")]
    ELSE d

\* if bear_score >= 90 ... elif >= 70 ... elif >= 50
BearBlock(d, bear_score, bear_reasons, latest) ==
    IF bear_score >= 90
    THEN [d EXCEPT !.alert_subject = "strong bear", !.priority = "high",
                   !.alert_message = generate_alert_message("STRONG_BEAR", bear_score, bear_reasons, latest)]
    ELSE IF bear_score >= 70
    THEN [d EXCEPT !.alert_subject = "bear", !.priority = "medium",
                   !.alert_message = generate_alert_message("BEAR", bear_score, bear_reasons, latest)]
    ELSE IF bear_score >= 50
    THEN [d EXCEPT !.alert_subject = "bear watch", !.priority = "low",
                   !.printed = Append(@, "bear watch")]
    ELSE d

\* BullBlock alerting from the Watch band on (the BULL branch taken at 50).
BullBlock_AlertsFrom50(d, bull_score, bull_reasons, latest) ==
    IF bull_score >= 90
    THEN [d EXCEPT !.alert_subject = "strong bull", !.priority = "high",
                   !.alert_message = generate_alert_message("STRONG_BULL", bull_score, bull_reasons, latest)]
    ELSE IF bull_score >= 50
    THEN [d EXCEPT !.alert_subject = "bull", !.priority = "medium",
                   !.alert_message = generate_alert_message("BULL", bull_score, bull_reasons, latest)]
    ELSE d

\* BullBlock replacing the message only, subject and priority left as the
\* bear block set them.
BullBlock_MessageOnly(d, bull_score, bull_reasons, latest) ==
    IF bull_score >= 90
    THEN [d EXCEPT !.alert_message = generate_alert_message("STRONG_BULL", bull_score, bull_reasons, latest)]
    ELSE IF bull_score >= 70
    THEN [d EXCEPT !.alert_message = generate_alert_message("BULL", bull_score, bull_reasons, latest)]
    ELSE IF bull_score >= 50 /\ d.alert_message = EmptyMessage
    THEN [d EXCEPT !.alert_subject = "bull watch", !.priority = "low",
                   !.printed = Append(@, "bull watch")]
    ELSE d

\* if bull_score >= 90 ... elif >= 70 ... elif >= 50 and not alert_message
BullBlock(d, bull_score, bull_reasons, latest) ==
    IF bull_score >= 90
    THEN [d EXCEPT !.alert_subject = "strong bull", !.priority = "high",
                   !.alert_message = generate_alert_message("STRONG_BULL", bull_score, bull_reasons, latest)]
    ELSE IF bull_score >= 70
    THEN [d EXCEPT !.alert_subject = "bull", !.priority = "medium",
                   !.alert_message = generate_alert_message("BULL", bull_score, bull_reasons, latest)]
    ELSE IF bull_score >= 50 /\ d.alert_message = EmptyMessage
    THEN [d EXCEPT !.alert_subject = "bull watch", !.priority = "low",
                   !.printed = Append(@, "bull watch")]
    ELSE d

\* Lines 597-626: the bear block, then the bull block on its result.
Decide(bear, bull, latest) ==
    BullBlock(BearBlock(NoDecision, bear.score, bear.reasons, latest),
              bull.score, bull.reasons, latest)

\* df.dropna(subset=['EMA_20'])
RECURSIVE dropna(_)
dropna(df) ==
    IF df = <<>> THEN <<>>
    ELSE IF notna(Head(df).EMA_20) THEN <<Head(df)>> \o dropna(Tail(df))
    ELSE dropna(Tail(df))

\* send_telegram_message / send_email_alert: not configured -> the message is
\* only logged; otherwise it is posted, and a failure is caught and logged.
Delivery == {"logged", "sent", "failed"}

\* send_telegram_message with the except clause missing: a failed post
\* propagates to the caller.
send_telegram_message_Uncaught(message, t) ==
    [exc |-> IF t = "failed" THEN "RequestException" ELSE "none",
     handed |-> <<[text |-> message, status |-> t]>>]

\* send_telegram_message(message) when the delivery goes as t: what the call
\* raises (nothing: lines 70-71 catch every Exception) and what it was handed.
send_telegram_message(message, t) ==
    [exc |-> "none", handed |-> <<[text |-> message, status |-> t]>>]

\* send_email_alert that hands nothing on.
send_email_alert_Unsent(subject, content, e) ==
    [exc |-> "none", handed |-> <<>>]

\* send_email_alert(subject, content) when the delivery goes as e (lines
\* 96-97 catch every Exception).
send_email_alert(subject, content, e) ==
    [exc |-> "none",
     handed |-> <<[subject |-> subject, content |-> content, status |-> e]>>]

\* ------------------------------------------------------------------ inputs

Row(c, h, l, v, e20, e50, e200, bbl, bbu, rsi, macd, sig, vma, obv) ==
    [c |-> c, h |-> h, l |-> l, v |-> v, EMA_20 |-> e20, EMA_50 |-> e50,
     EMA_200 |-> e200, BB_lower |-> bbl, BB_upper |-> bbu, RSI_14 |-> rsi,
     MACD |-> macd, MACD_signal |-> sig, Volume_MA |-> vma, OBV |-> obv]

\* An early candle: no indicator has its lookback yet (OBV starts at once).
Young == Row(100, 101, 99, 10, NaN, NaN, NaN, NaN, NaN, NaN, NaN, NaN, NaN, Some(0))
\* A quiet candle just above its averages, RSI low after a sell-off.
Flat == Row(100, 101, 99, 10, Some(99), Some(100), NaN, Some(98), Some(102),
            Some(28), Some(0), Some(0), Some(10), Some(0))
\* A falling candle.
Falling == Row(80, 100, 78, 20, Some(90), Some(95), Some(98), Some(82), Some(110),
               Some(20), Some(0 - 2), Some(0 - 1), Some(15), Some(0 - 10))
\* A rising candle.
Rising == Row(120, 122, 100, 20, Some(110), Some(105), Some(100), Some(90), Some(118),
              Some(75), Some(2), Some(1), Some(15), Some(10))
\* A wide candle closing low: below its averages but above a narrow band.
Wide == Row(70, 125, 60, 30, Some(90), Some(95), Some(98), Some(50), Some(65),
            Some(25), Some(1), Some(0), Some(15), Some(0))
\* Feed glitches: a close printed below the low / above the high of the bar.
Crash == Row(50, 124, 55, 40, Some(88), Some(94), Some(98), Some(52), Some(120),
             Some(15), Some(0 - 1), Some(0), Some(20), Some(0 - 20))
Spike == Row(140, 130, 100, 40, Some(112), Some(106), Some(100), Some(95), Some(125),
             Some(40), Some(3), Some(1), Some(20), Some(20))

Palette == {Young, Flat, Falling, Rising, Wide, Crash, Spike}

\* The last rows of a frame: any 0..MaxTail rows of the palette.
Tails == UNION {[1..n -> Palette] : n \in 0..MaxTail}

Repeat(row, k) == [i \in 1..k |-> row]

\* Older rows (seen only through the tail(10) / tail(20) windows) and the
\* optional columns of the frame.  Short frames may lack the MACD and
\* Bollinger columns.
Shapes ==
    {<<Young, 0, {}>>, <<Young, 0, {"BB"}>>, <<Young, 0, AllColumns>>}
    \cup {<<r, k, AllColumns>> : r \in {Young, Flat}, k \in {ShortHist, LongHist}}

ChainInputs ==
    {NoChain, EmptyDict,
     ChainDict(Some(600), Some(50)), ChainDict(Some(100), Some(150)),
     ChainDict(NaN, NaN), ChainDict(Some(600), NaN), ChainDict(Some(600), Some(150)),
     ChainDict(Some(600), Some(0))}

\* --------------------------------------------------- calculate_indicators

\* A raw candle, as get_price_data delivers it.
Candle(c, h, l, v) == [c |-> c, h |-> h, l |-> l, v |-> v]

\* The sum of a raw column over rows from..to.
RECURSIVE SumCol(_, _, _, _)
SumCol(raw, col, from, to) ==
    IF from > to THEN 0 ELSE raw[to][col] + SumCol(raw, col, from, to - 1)

RECURSIVE SumSquares(_, _, _)
SumSquares(raw, from, to) ==
    IF from > to THEN 0 ELSE raw[to].c * raw[to].c + SumSquares(raw, from, to - 1)

\* ema averaging whatever closes there are while the window is not full.
RECURSIVE ema_PartialWindow(_, _, _)
ema_PartialWindow(raw, length, i) ==
    IF Len(raw) < length \/ i <= length THEN Some(SumCol(raw, "c", 1, i) \div i)
    ELSE LET prev == ema_PartialWindow(raw, length, i - 1)[1]
         IN  Some(prev + (2 * (raw[i].c - prev)) \div (length + 1))

\* ta.ema(df['c'], length) at row i: nothing at all for a series shorter than
\* length; NaN before row length; the simple mean of the first length closes
\* at row length; from then on prev + 2 / (length + 1) * (close - prev).
RECURSIVE ema(_, _, _)
ema(raw, length, i) ==
    IF Len(raw) < length \/ i < length THEN NaN
    ELSE IF i = length THEN Some(SumCol(raw, "c", 1, length) \div length)
    ELSE LET prev == ema(raw, length, i - 1)[1]
         IN  Some(prev + (2 * (raw[i].c - prev)) \div (length + 1))

\* ta.rsi(df['c'], length) at row i: NaN for the first length rows, then
\* 100 * avg_gain / (avg_gain + avg_loss) with Wilder averages over all the
\* changes so far: 0 / 0 (NaN) when the close never moved, 0 when it never
\* rose, 100 when it never fell.  A series that both rises and falls needs
\* the fractional averages; no series of the model is one.
rsi(raw, length, i) ==
    IF i <= length THEN NaN
    ELSE LET rose == \E j \in 2..i : raw[j].c > raw[j - 1].c
             fell == \E j \in 2..i : raw[j].c < raw[j - 1].c
         IN  CASE ~rose /\ ~fell -> NaN
               [] ~rose /\ fell -> Some(0)
               [] rose /\ ~fell -> Some(100)

\* ta.bbands(df['c'], length=20, std=2): mean -/+ 2 population standard
\* deviations of the last 20 closes, NaN before row 20.  With S the sum and Q
\* the sum of squares of those closes, b < mean - 2 sd is
\* S - 20 b > 0 and (S - 20 b)^2 > 4 (20 Q - S^2).  The rules compare the
\* bands with whole-number closes only (close < BB_lower, close > BB_upper),
\* so the cell holds the lower band rounded up and the upper band rounded
\* down: every such comparison comes out as with the exact band.
bb_lower(raw, i) ==
    IF i < 20 THEN NaN
    ELSE LET S == SumCol(raw, "c", i - 19, i)
             Q == SumSquares(raw, i - 19, i)
             Below(b) == S - 20 * b > 0 /\ (S - 20 * b) * (S - 20 * b) > 4 * (20 * Q - S * S)
         IN  Some(CHOOSE b \in (0 - 200)..200 : ~Below(b) /\ Below(b - 1))

bb_upper(raw, i) ==
    IF i < 20 THEN NaN
    ELSE LET S == SumCol(raw, "c", i - 19, i)
             Q == SumSquares(raw, i - 19, i)
             Above(b) == 20 * b - S > 0 /\ (20 * b - S) * (20 * b - S) > 4 * (20 * Q - S * S)
         IN  Some(CHOOSE b \in 0..400 : ~Above(b) /\ Above(b + 1))

\* df['v'].rolling(window=20).mean()
volume_ma(raw, i) ==
    IF i < 20 THEN NaN ELSE Some(SumCol(raw, "v", i - 19, i) \div 20)

\* ta.obv(df['c'], df['v']): the running sum of +volume on a rising close,
\* -volume on a falling one, 0 on an unchanged one (the first row counts up).
RECURSIVE obv(_, _)
obv(raw, i) ==
    IF i = 1 THEN raw[1].v
    ELSE obv(raw, i - 1) + (IF raw[i].c > raw[i - 1].c THEN raw[i].v
                            ELSE IF raw[i].c < raw[i - 1].c THEN 0 - raw[i].v
                            ELSE 0)

\* The optional column groups calculate_indicators assigns: ta.bbands needs
\* 20 candles and ta.macd 26 (its slow length) to return a frame.
IndicatorColumns(raw) ==
    (IF Len(raw) >= 20 THEN {"BB"} ELSE {}) \cup (IF Len(raw) >= 26 THEN {"MACD"} ELSE {})

\* calculate_indicators(df) on a series of fewer than 26 candles: no MACD
\* columns.  ATR is computed too, and read by no rule.
calculate_indicators(raw) ==
    [i \in 1..Len(raw) |->
        Row(raw[i].c, raw[i].h, raw[i].l, raw[i].v,
            ema(raw, 20, i), ema(raw, 50, i), ema(raw, 200, i),
            bb_lower(raw, i), bb_upper(raw, i), rsi(raw, 14, i),
            NaN, NaN, volume_ma(raw, i), Some(obv(raw, i)))]

\* The averages of the series come out as whole numbers (the cells hold whole
\* numbers): every division made by ema and volume_ma is exact.
RECURSIVE WholeEMA(_, _, _)
WholeEMA(raw, length, i) ==
    IF Len(raw) < length \/ i < length THEN TRUE
    ELSE IF i = length THEN SumCol(raw, "c", 1, length) % length = 0
    ELSE /\ WholeEMA(raw, length, i - 1)
         /\ (2 * (raw[i].c - ema(raw, length, i - 1)[1])) % (length + 1) = 0

WholeNumbered(raw) ==
    /\ WholeEMA(raw, 20, Len(raw))
    /\ \A i \in 20..Len(raw) : SumCol(raw, "v", i - 19, i) % 20 = 0

\* --------------------------------------------------------- scenario series

\* 25 identical candles.
FlatSeries == [i \in 1..25 |-> Candle(100, 101, 99, 10)]

\* 25 closes falling from 100 to 50.
FallingCloses ==
    {<<100, 98, 96, 94, 92, 88, 86, 84, 82, 80, 77, 75, 73, 71, 69, 67, 65, 63, 61, 59,
       58, 56, 54, 52, 50>>,
     <<100, 97, 94, 93, 91, 88, 86, 85, 83, 81, 78, 76, 73, 72, 70, 67, 64, 63, 60, 59,
       58, 56, 54, 52, 50>>,
     <<100, 97, 95, 92, 89, 86, 84, 82, 79, 78, 76, 75, 74, 73, 71, 70, 68, 66, 64, 61,
       58, 56, 54, 52, 50>>}

\* Candles one dollar either side of such closes, on a volume of 20 that
\* doubles on each of the last two bars.
FallingSeries ==
    {[i \in 1..25 |-> Candle(cl[i], cl[i] + 1, cl[i] - 1,
                             IF i = 25 THEN 80 ELSE IF i = 24 THEN 40 ELSE 20)] :
        cl \in FallingCloses}

ScenarioSeries == {raw \in {FlatSeries} \cup FallingSeries : WholeNumbered(raw)}

\* ------------------------------------------------------------------- state

VARIABLES
    df,             \* the annotated weekly frame (rows, oldest first)
    columns,        \* which optional column groups the frame has
    chain_data,     \* the chain metrics on offer
    entry,          \* which entry point has run: none / bear / bull / check
    outcome,        \* none / returned / raised / aborted
    bear_result,    \* (bear_score, bear_reasons) or the exception
    bull_result,    \* (bull_score, bull_reasons) or the exception
    decision,       \* alert_subject, priority, alert_message, printed
    telegram,       \* messages handed to send_telegram_message, with outcome
    email           \* alerts handed to send_email_alert, with outcome

\* dip_hunter.py, run_strategy
VARIABLES
    pc,             \* off / start / loop / sleep / returned
    cursor,         \* position of the for loop in TARGETS
    rounds,         \* passes of the while loop begun so far
    now,            \* the wall clock, time.time(), in seconds
    last_buy_times, \* symbol -> current_time of the last recorded buy
    market_data,    \* per symbol, the latest get_market_data result and its round
    orders          \* the orders the exchange accepted, oldest first

trader == <<pc, cursor, rounds, now, last_buy_times, market_data, orders>>

vars == <<df, columns, chain_data, entry, outcome, bear_result, bull_result,
          decision, telegram, email, trader>>

\* The trading loop is not running.
TraderOff ==
    /\ pc = "off"
    /\ cursor = 1
    /\ rounds = 0
    /\ now = 0
    /\ last_buy_times = <<>>
    /\ market_data = <<>>
    /\ orders = <<>>

NotRun == [exc |-> "not run", score |-> 0, reasons |-> <<>>]

Init ==
    /\ \/ \E s \in Shapes, t \in Tails :
             /\ df = Repeat(s[1], s[2]) \o t
             /\ columns = s[3]
       \/ \E raw \in ScenarioSeries :
             /\ df = calculate_indicators(raw)
             /\ columns = IndicatorColumns(raw)
    /\ chain_data \in ChainInputs
    /\ entry = "none"
    /\ outcome = "none"
    /\ bear_result = NotRun
    /\ bull_result = NotRun
    /\ decision = NoDecision
    /\ telegram = <<>>
    /\ email = <<>>
    /\ TraderOff

\* A caller evaluates the bear rule-set on the frame.
CalculateBear ==
    /\ UNCHANGED trader
    /\ entry = "none"
    /\ entry' = "bear"
    /\ bear_result' = calculate_bear_signal_score(df, columns, chain_data)
    /\ outcome' = IF bear_result'.exc = "none" THEN "returned" ELSE "raised"
    /\ UNCHANGED <<df, columns, chain_data, bull_result, decision, telegram, email>>

\* A caller evaluates the bull rule-set on the frame.
CalculateBull ==
    /\ UNCHANGED trader
    /\ entry = "none"
    /\ entry' = "bull"
    /\ bull_result' = calculate_bull_signal_score(df, columns, chain_data)
    /\ outcome' = IF bull_result'.exc = "none" THEN "returned" ELSE "raised"
    /\ UNCHANGED <<df, columns, chain_data, bear_result, decision, telegram, email>>

\* check_market_signals, lines 554-562: the fetch failed (None or an empty
\* frame) or brought fewer than MinCandles candles.
CheckAborts ==
    /\ UNCHANGED trader
    /\ entry = "none"
    /\ \E fetched \in BOOLEAN : ~fetched \/ Len(df) < MinCandles
    /\ entry' = "check"
    /\ outcome' = "aborted"
    /\ UNCHANGED <<df, columns, chain_data, bear_result, bull_result, decision,
                   telegram, email>>

\* CheckRaises with the failure swallowed: the cycle goes on to the dispatch
\* with the locals as they stand.
CheckRaises_Swallowed ==
    /\ UNCHANGED trader
    /\ entry = "none"
    /\ Len(df) >= MinCandles
    /\ \/ ChainSupplied(chain_data)
       \/ calculate_bear_signal_score(dropna(df), columns, NoChain).exc # "none"
    /\ entry' = "check"
    /\ outcome' = "raised"
    /\ telegram' = <<[text |-> generate_alert_message("", 0, <<>>, iloc(df, 1)),
                      status |-> "sent"]>>
    /\ UNCHANGED <<df, columns, chain_data, bear_result, bull_result, decision, email>>

\* check_market_signals, lines 564-582: Glassnode delivered both metrics and
\* the log line that formats them raises; or a scoring call raises.
CheckRaises ==
    /\ UNCHANGED trader
    /\ entry = "none"
    /\ Len(df) >= MinCandles
    /\ LET df_week == dropna(df)
           bear == calculate_bear_signal_score(df_week, columns, NoChain)
           bull == calculate_bull_signal_score(df_week, columns, NoChain)
       IN  \/ /\ ChainSupplied(chain_data)
              /\ UNCHANGED <<bear_result, bull_result>>
           \/ /\ ~ChainSupplied(chain_data)
              /\ bear.exc # "none"
              /\ bear_result' = bear
              /\ UNCHANGED bull_result
           \/ /\ ~ChainSupplied(chain_data)
              /\ bear.exc = "none" /\ bull.exc # "none"
              /\ bear_result' = bear
              /\ bull_result' = bull
    /\ entry' = "check"
    /\ outcome' = "raised"
    /\ UNCHANGED <<df, columns, chain_data, decision, telegram, email>>

\* check_market_signals run to its end: scores, decision, dispatch.
CheckCompletes ==
    /\ UNCHANGED trader
    /\ entry = "none"
    /\ Len(df) >= MinCandles
    /\ ~ChainSupplied(chain_data)
    /\ LET df_week == dropna(df)
           bear == calculate_bear_signal_score(df_week, columns, NoChain)
           bull == calculate_bull_signal_score(df_week, columns, NoChain)
       IN  /\ bear.exc = "none" /\ bull.exc = "none"
           /\ bear_result' = bear
           /\ bull_result' = bull
           /\ LET d == Decide(bear, bull, iloc(df_week, 1))
              IN  IF d.alert_message # EmptyMessage
                  THEN /\ decision' = [d EXCEPT !.printed = Append(@, "alert")]
                       /\ \E t \in Delivery :
                             LET tg == send_telegram_message(d.alert_message, t)
                             IN  /\ telegram' = tg.handed
                                 /\ IF tg.exc # "none"
                                    THEN email' = <<>> /\ outcome' = "raised"
                                    ELSE IF d.priority = "high"
                                    THEN \E e \in Delivery :
                                            LET em == send_email_alert(d.alert_subject,
                                                                       d.alert_message, e)
                                            IN  /\ email' = em.handed
                                                /\ outcome' = IF em.exc # "none"
                                                              THEN "raised"
                                                              ELSE "returned"
                                    ELSE email' = <<>> /\ outcome' = "returned"
                  ELSE /\ decision' = [d EXCEPT !.printed = Append(@, "neutral")]
                       /\ telegram' = <<>>
                       /\ email' = <<>>
                       /\ outcome' = "returned"
    /\ entry' = "check"
    /\ UNCHANGED <<df, columns, chain_data>>

Next == CalculateBear \/ CalculateBull \/ CheckAborts \/ CheckRaises \/ CheckCompletes

Spec == Init /\ [][Next]_vars

\* ------------------------------------------------------- reading a result

RECURSIVE SumStated(_)
SumStated(reasons) ==
    IF reasons = <<>> THEN 0 ELSE Head(reasons).stated + SumStated(Tail(reasons))

Keys(reasons) == {reasons[i].key : i \in 1..Len(reasons)}
Entries(reasons, keys) == {reasons[i] : i \in {j \in 1..Len(reasons) : reasons[j].key \in keys}}

RECURSIVE SumOf(_)
SumOf(S) == IF S = {} THEN 0 ELSE LET x == CHOOSE y \in S : TRUE
                                  IN  x.stated + SumOf(S \ {x})

\* The results a state holds from calls that returned.
ReturnedResults == {r \in {bear_result, bull_result} : r.exc = "none"}

\* C1: whenever calculate_bear_signal_score / calculate_bull_signal_score
\* return, the score lies in 0..100 and equals the sum of the points printed
\* in the verdict strings of the returned reasons.
C1_ScoreIsSumOfStatedPoints ==
    \A r \in ReturnedResults :
        /\ r.score \in 0..100
        /\ r.score = SumStated(r.reasons)

\* C1 witness: a bear evaluation returned the full 100 points, every verdict
\* carrying its share.
C1_Witness ==
    /\ entry = "bear" /\ outcome = "returned"
    /\ bear_result.score = 100
    /\ SumStated(bear_result.reasons) = 100

\* The tier each reasons key belongs to (the section comments of the source).
Tier(key) ==
    CASE key \in {"EMA_20", "EMA_50", "Death_Cross", "Golden_Cross"} -> "primary"
      [] key \in {"Lower_Low", "Higher_High", "Support", "Resistance",
                  "BB_Breakdown", "BB_Breakout"} -> "price action"
      [] key \in {"RSI", "MACD", "Divergence"} -> "momentum"
      [] key \in {"Volume", "OBV"} -> "volume"
      [] OTHER -> "chain"

TierPoints(r, tier) ==
    SumOf({r.reasons[i] : i \in {j \in 1..Len(r.reasons) : Tier(r.reasons[j].key) = tier}})

\* Every rule of the table passed with its top verdict.
AllPassed(r) ==
    /\ Len(r.reasons) = 13
    /\ \A i \in 1..Len(r.reasons) : r.reasons[i].mark = "pass"

\* C2: in both rule-sets the rule maxima sum to 100, split by tier as
\* primary trend 40, price action 25, momentum 20, volume 10, chain data 5:
\* no evaluation awards a tier more than that, and an evaluation in which
\* every rule passes awards each tier exactly that.
C2_TierMaxima ==
    \A r \in ReturnedResults :
        /\ TierPoints(r, "primary") <= 40
        /\ TierPoints(r, "price action") <= 25
        /\ TierPoints(r, "momentum") <= 20
        /\ TierPoints(r, "volume") <= 10
        /\ TierPoints(r, "chain") <= 5
        /\ AllPassed(r) =>
              /\ TierPoints(r, "primary") = 40
              /\ TierPoints(r, "price action") = 25
              /\ TierPoints(r, "momentum") = 20
              /\ TierPoints(r, "volume") = 10
              /\ TierPoints(r, "chain") = 5
              /\ r.score = 100

\* C2 witness: a bull evaluation in which all thirteen rules passed.
C2_Witness ==
    /\ entry = "bull" /\ outcome = "returned"
    /\ AllPassed(bull_result)
    /\ bull_result.score = 40 + 25 + 20 + 10 + 5

\* The classification bands of the specification.
Band(score) ==
    IF score >= 90 THEN "Strong"
    ELSE IF score >= 70 THEN "Confirmed"
    ELSE IF score >= 50 THEN "Watch"
    ELSE "None"

CheckReturned == entry = "check" /\ outcome = "returned"

Printed(what) == \E i \in 1..Len(decision.printed) : decision.printed[i] = what

\* C3: check_market_signals applies the same bands to both scores: >= 90
\* Strong, 70..89 Confirmed, 50..69 Watch, below 50 nothing.  A Strong /
\* Confirmed bull score selects the STRONG_BULL / BULL alert; otherwise a
\* Strong / Confirmed bear score selects the STRONG_BEAR / BEAR alert; a bear
\* Watch is printed exactly when the bear score is in 50..69, a bull Watch
\* when the bull score is in 50..69 and no alert is pending; and with both
\* scores below 50 nothing is selected.
C3_BandsApplied ==
    CheckReturned =>
        LET bear == Band(bear_result.score)
            bull == Band(bull_result.score)
            type == decision.alert_message.signal_type
        IN  /\ bull = "Strong" => type = "STRONG_BULL" /\ decision.priority = "high"
            /\ bull = "Confirmed" => type = "BULL" /\ decision.priority = "medium"
            /\ bull \in {"Watch", "None"} /\ bear = "Strong" =>
                  type = "STRONG_BEAR" /\ decision.priority = "high"
            /\ bull \in {"Watch", "None"} /\ bear = "Confirmed" =>
                  type = "BEAR" /\ decision.priority = "medium"
            /\ Printed("bear watch") <=> bear = "Watch"
            /\ Printed("bull watch") <=>
                  bull = "Watch" /\ bear \in {"Watch", "None"}
            /\ bull = "None" /\ bear = "None" =>
                  /\ decision.alert_subject = ""
                  /\ decision.alert_message = EmptyMessage

\* C3 witness: a check whose bear score is exactly 90 was classified Strong.
C3_Witness ==
    /\ CheckReturned
    /\ bear_result.score = 90
    /\ decision.alert_message.signal_type = "STRONG_BEAR"
    /\ decision.alert_subject = "strong bear"

BearSubjects == {"strong bear", "bear", "bear watch"}
BullSubjects == {"strong bull", "bull", "bull watch"}

C5_DispatchIffConfirmed ==
    /\ CheckReturned =>
          LET alerting == bear_result.score >= 70 \/ bull_result.score >= 70
          IN  /\ decision.alert_message # EmptyMessage <=> alerting
              /\ Len(telegram) = (IF alerting THEN 1 ELSE 0)
              /\ alerting => telegram[1].text = decision.alert_message
              /\ ~alerting => email = <<>> /\ Printed("neutral")
    /\ entry = "check" /\ outcome # "returned" => telegram = <<>> /\ email = <<>>

\* C5 witness: a check with a Watch score (bear in 50..69, bull below 70)
\* printed the observation and dispatched nothing.
C5_Witness ==
    /\ CheckReturned
    /\ bear_result.score \in 50..69 /\ bull_result.score < 70
    /\ Printed("bear watch")
    /\ telegram = <<>> /\ email = <<>>

\* The result of the scoring call a caller made directly.
DirectCall == entry \in {"bear", "bull"}
DirectResult == IF entry = "bear" THEN bear_result ELSE bull_result

BearRuleKeys ==
    {"EMA_20", "EMA_50", "Death_Cross", "Lower_Low", "Support", "BB_Breakdown",
     "RSI", "MACD", "Divergence", "Volume", "OBV"}
BullRuleKeys ==
    {"EMA_20", "EMA_50", "Golden_Cross", "Higher_High", "Resistance", "BB_Breakout",
     "RSI", "MACD", "Divergence", "Volume", "OBV"}

HasChainEntry(r) ==
    "Chain_Data" \in Keys(r.reasons) \/ {"MVRV", "SOPR"} \subseteq Keys(r.reasons)

\* C7: every evaluation that returns carries an entry for every rule of the
\* rule table, whatever the input (absent indicators, fewer than 10 candles).
C7_BreakdownComplete ==
    /\ bear_result.exc = "none" =>
          BearRuleKeys \subseteq Keys(bear_result.reasons) /\ HasChainEntry(bear_result)
    /\ bull_result.exc = "none" =>
          BullRuleKeys \subseteq Keys(bull_result.reasons) /\ HasChainEntry(bull_result)

\* The bear rules whose comparison reads an absent indicator on this frame.
BearTouchesAbsent(frame, cols) ==
    LET latest == iloc(frame, 1)
        prev1 == iloc(frame, 2)
        absent(group, row, col) == ~notna(get(cols, group, row, col))
    IN  {k \in BearRuleKeys :
           \/ k = "EMA_20" /\ (~notna(latest.EMA_20) \/ ~notna(prev1.EMA_20))
           \/ k = "EMA_50" /\ ~notna(latest.EMA_50)
           \/ k = "Death_Cross" /\ (~notna(latest.EMA_50) \/ ~notna(latest.EMA_200))
           \/ k = "BB_Breakdown" /\ absent("BB", latest, "BB_lower")
           \/ k = "RSI" /\ (~notna(latest.RSI_14) \/ ~notna(prev1.RSI_14))
           \/ k = "MACD" /\ (\/ absent("MACD", latest, "MACD")
                             \/ absent("MACD", latest, "MACD_signal")
                             \/ absent("MACD", prev1, "MACD")
                             \/ absent("MACD", prev1, "MACD_signal"))
           \/ k = "Divergence" /\ Len(frame) >= MomentumWindow /\ ~notna(latest.RSI_14)
           \/ k = "Volume" /\ ~notna(latest.Volume_MA)
           \/ k = "OBV" /\ (~notna(latest.OBV) \/ ~notna(prev1.OBV))}

\* C8: a rule whose comparison touches an absent indicator awards 0 points,
\* never raises, and records a verdict that differs from the one recorded
\* when the indicator is present and the condition fails.
C8_AbsentIsDistinguished ==
    (entry = "bear" /\ Len(df) >= 2 /\ ~ChainSupplied(chain_data)) =>
        /\ bear_result.exc = "none"
        /\ \A k \in BearTouchesAbsent(df, columns) :
              \E e \in Entries(bear_result.reasons, {k}) :
                  e.stated = 0 /\ e.mark \notin {"pass", "partial", "fail"}

\* The chain fields that are present and inside the scoring band of a regime.
InBand(regime, field, x) ==
    /\ notna(x)
    /\ CASE regime = "bear" /\ field = "MVRV" -> x[1] > 5 * ChainScale
         [] regime = "bear" /\ field = "SOPR" -> x[1] < ChainScale
         [] regime = "bull" /\ field = "MVRV" -> 2 * x[1] > ChainScale /\ x[1] < 2 * ChainScale
         [] regime = "bull" /\ field = "SOPR" -> x[1] > ChainScale

\* C9: when chain metrics are supplied but a field is absent or outside the
\* scoring band, the chain rule of that field contributes 0 points and the
\* evaluation still returns a score and a breakdown.
C9_ChainFieldsDegrade ==
    (DirectCall /\ Len(df) >= 2 /\ "BB" \in columns /\ ChainSupplied(chain_data)) =>
        /\ DirectResult.exc = "none"
        /\ ~InBand(entry, "MVRV", chain_data.mvrv_z_score) =>
              SumOf(Entries(DirectResult.reasons, {"MVRV"})) = 0
        /\ ~InBand(entry, "SOPR", chain_data.sopr) =>
              SumOf(Entries(DirectResult.reasons, {"SOPR"})) = 0

\* C10: with chain_data None or empty, the chain tier adds nothing to the
\* score and the breakdown records it once, under Chain_Data, with the
\* 'unavailable' verdict - not a 'failed' one, and no MVRV / SOPR entry.
C10_ChainUnavailable ==
    (DirectCall /\ Len(df) >= 2 /\ "BB" \in columns
        /\ chain_data.kind \in {"None", "empty"}) =>
        LET r == DirectResult
            chain == Entries(r.reasons, {"Chain_Data"})
        IN  /\ r.exc = "none"
            /\ Cardinality(chain) = 1
            /\ \A e \in chain :
                  e.stated = 0 /\ e.mark = "info" /\ e.text = "chain data unavailable"
            /\ Keys(r.reasons) \cap {"MVRV", "SOPR"} = {}
            /\ TierPoints(r, "chain") = 0
            /\ r.score = SumOf(Entries(r.reasons, BearRuleKeys \cup BullRuleKeys))

\* C10 witness: the bull rule-set, called with an empty dict, recorded the
\* chain tier as unavailable.
C10_Witness ==
    /\ entry = "bull" /\ outcome = "returned"
    /\ chain_data = EmptyDict
    /\ "Chain_Data" \in Keys(bull_result.reasons)
    /\ bull_result.score > 0

\* The points a result awards under a key, and the verdict it records there
\* (nothing when the breakdown has no such entry).
PointsOf(r, key) == SumOf(Entries(r.reasons, {key}))
VerdictOf(r, key) == {<<e.mark, e.stated>> : e \in Entries(r.reasons, {key})}

\* C11: for every candle series whose bear score without chain metrics is
\* defined, the bear score with chain metrics holding mvrv_z_score = 6.0
\* (sopr absent or of any value) is defined too and is not smaller.
C11_ChainNeverLowersBear ==
    (entry = "bear" /\ chain_data.kind = "dict"
        /\ chain_data.mvrv_z_score = Some(6 * ChainScale)
        /\ calculate_bear_signal_score(df, columns, NoChain).exc = "none") =>
        /\ bear_result.exc = "none"
        /\ bear_result.score >= calculate_bear_signal_score(df, columns, NoChain).score

\* The mirror image of a series: prices reflected about 200, RSI about 50,
\* MACD and OBV about 0; the lower band of the image is the reflected upper
\* band.  Every "<" between two of these becomes ">".
MirrorCell(x, twice) == IF notna(x) THEN Some(twice - x[1]) ELSE NaN

MirrorRow(r) ==
    Row(200 - r.c, 200 - r.l, 200 - r.h, r.v,
        MirrorCell(r.EMA_20, 200), MirrorCell(r.EMA_50, 200), MirrorCell(r.EMA_200, 200),
        MirrorCell(r.BB_upper, 200), MirrorCell(r.BB_lower, 200),
        MirrorCell(r.RSI_14, 100), MirrorCell(r.MACD, 0), MirrorCell(r.MACD_signal, 0),
        r.Volume_MA, MirrorCell(r.OBV, 0))

MirrorFrame(frame) == [i \in 1..Len(frame) |-> MirrorRow(frame[i])]

\* The bear score of the mirrored series.
BearOfMirror == calculate_bear_signal_score(MirrorFrame(df), columns, chain_data)

\* The bear rule a bull rule answers to.
BearCounterpart(key) ==
    CASE key = "Golden_Cross" -> "Death_Cross"
      [] key = "Higher_High" -> "Lower_Low"
      [] key = "Resistance" -> "Support"
      [] key = "BB_Breakout" -> "BB_Breakdown"
      [] OTHER -> key

\* The bull rules whose comparisons are between reflected quantities only
\* (Resistance and Divergence scale a price by 1.02 / 1.05, which a
\* reflection does not carry over).
ReflectedKeys ==
    {"EMA_50", "Golden_Cross", "Higher_High", "BB_Breakout", "RSI", "MACD", "Volume", "OBV"}

BullEvaluated == entry = "bull" /\ outcome = "returned" /\ chain_data.kind # "dict"

\* C12 as stated, for the EMA20 trend rule: the bull rule awards a series
\* the points the bear rule awards its mirror image (20 / 10 / 0 over the
\* same bars).
C12_BullEMA20MirrorsBear ==
    BullEvaluated => PointsOf(bull_result, "EMA_20") = PointsOf(BearOfMirror, "EMA_20")

\* C12 amended: the bull EMA50, Golden-Cross, Higher-High, Bollinger, RSI,
\* MACD, Volume and OBV rules record for a series the verdict (mark and
\* points) their bear counterparts record for the mirrored series; the bull
\* EMA20 rule does not: it counts the closes above EMA20 among the last three
\* bars and awards 20 / 12 / 6 / 0 for 3 / 2 / 1 / 0 of them, and records
\* nothing when EMA20 is absent on one of the three.
C12_MirrorExceptEMA20 ==
    BullEvaluated =>
        LET latest == iloc(df, 1)
            prev1 == iloc(df, 2)
            prev2 == IF Len(df) >= 3 THEN iloc(df, 3) ELSE prev1
            bars == <<latest, prev1, prev2>>
            known == \A i \in 1..3 : notna(bars[i].EMA_20)
            weeks == Cardinality({i \in 1..3 : bars[i].c > bars[i].EMA_20[1]})
        IN  /\ BearOfMirror.exc = "none"
            /\ \A k \in ReflectedKeys :
                  VerdictOf(bull_result, k) = VerdictOf(BearOfMirror, BearCounterpart(k))
            /\ VerdictOf(bull_result, "EMA_20") =
                  IF ~known THEN {}
                  ELSE CASE weeks = 3 -> {<<"pass", 20>>}
                         [] weeks = 2 -> {<<"partial", 12>>}
                         [] weeks = 1 -> {<<"partial", 6>>}
                         [] OTHER -> {<<"fail", 0>>}

\* C12 witness: a bull evaluation awarded 12 points for two of three weeks
\* above EMA20, and 7 for a MACD cross where the bear rule-set awards the
\* mirrored series 7 as well.
C12_Witness ==
    /\ BullEvaluated
    /\ PointsOf(bull_result, "EMA_20") = 12
    /\ PointsOf(bull_result, "MACD") = 7
    /\ PointsOf(BearOfMirror, "MACD") = 7

\* C13: the bear EMA20 rule awards 20 points when close < EMA20 on the latest
\* and on the previous bar, 10 when on the latest bar only, 0 otherwise - 0
\* too when close < EMA20 on the previous bar alone.
C13_BearEMA20Levels ==
    (entry = "bear" /\ outcome = "returned") =>
        LET below(r) == notna(r.EMA_20) /\ r.c < r.EMA_20[1]
        IN  PointsOf(bear_result, "EMA_20") =
               IF below(iloc(df, 1)) /\ below(iloc(df, 2)) THEN 20
               ELSE IF below(iloc(df, 1)) THEN 10
               ELSE 0

\* C13 witness: the close was below EMA20 on the previous bar alone and the
\* rule awarded nothing.
C13_Witness ==
    /\ entry = "bear" /\ outcome = "returned"
    /\ notna(iloc(df, 2).EMA_20) /\ iloc(df, 2).c < iloc(df, 2).EMA_20[1]
    /\ notna(iloc(df, 1).EMA_20) /\ iloc(df, 1).c > iloc(df, 1).EMA_20[1]
    /\ VerdictOf(bear_result, "EMA_20") = {<<"fail", 0>>}

\* C14: take the series evaluated and any series that differs from it in
\* latest.close only, both closes strictly below the latest EMA20: the bear
\* EMA20 rule awards the series with the larger close no less than the other.
C14_EMA20MonotoneInClose ==
    (entry = "bear" /\ outcome = "returned"
        /\ notna(iloc(df, 1).EMA_20) /\ iloc(df, 1).c < iloc(df, 1).EMA_20[1]) =>
        \A close \in 0..(iloc(df, 1).EMA_20[1] - 1) :
            LET other == BearEMA20([iloc(df, 1) EXCEPT !.c = close], iloc(df, 2))
                mine == PointsOf(bear_result, "EMA_20")
            IN  /\ other.exc = "none"
                /\ close > iloc(df, 1).c => other.add >= mine
                /\ close < iloc(df, 1).c => mine >= other.add

\* C14 witness: a close at least 2 under EMA20 (so that a larger close under
\* EMA20 exists) earned the full 20 points.
C14_Witness ==
    /\ entry = "bear" /\ outcome = "returned"
    /\ notna(iloc(df, 1).EMA_20) /\ iloc(df, 1).c + 1 < iloc(df, 1).EMA_20[1]
    /\ PointsOf(bear_result, "EMA_20") = 20

\* The raw candles of the frame evaluated.
RawOf(frame) ==
    [i \in 1..Len(frame) |-> Candle(frame[i].c, frame[i].h, frame[i].l, frame[i].v)]

FlatEvaluated == Len(df) = 25 /\ RawOf(df) = FlatSeries
FallingEvaluated == Len(df) = 25 /\ RawOf(df) \in FallingSeries

\* C16: on the flat series of 25 identical candles (close 100, high 101,
\* low 99, volume 10), without chain metrics, an evaluation awards no
\* Lower-Low or Higher-High points and no RSI points, the bear and the bull
\* score are below 50, the classification is None and nothing is alerted.
C16_FlatSeriesIsNeutral ==
    FlatEvaluated =>
        /\ (DirectCall /\ chain_data.kind # "dict") =>
              /\ DirectResult.exc = "none"
              /\ PointsOf(DirectResult, "Lower_Low") = 0
              /\ PointsOf(DirectResult, "Higher_High") = 0
              /\ PointsOf(DirectResult, "RSI") = 0
              /\ DirectResult.score < 50
              /\ Band(DirectResult.score) = "None"
        /\ decision.alert_message = EmptyMessage
        /\ telegram = <<>> /\ email = <<>>

\* C16 witness: the bear rule-set has evaluated the flat series, found the
\* low equal to the previous one and RSI undefined, and returned less than 50.
C16_Witness ==
    /\ FlatEvaluated
    /\ entry = "bear" /\ outcome = "returned" /\ chain_data = NoChain
    /\ VerdictOf(bear_result, "Lower_Low") = {<<"fail", 0>>}
    /\ ~notna(iloc(df, 1).RSI_14)
    /\ bear_result.score < 50

\* C17 as stated: on a series of 25 candles whose close falls strictly from
\* 100 to 50, below EMA20 on the last two bars, volume doubling on the last
\* two bars, no chain metrics, the bear score is >= 70.
C17_FallingSeriesConfirmed ==
    (FallingEvaluated /\ entry = "bear" /\ chain_data = NoChain) =>
        /\ bear_result.exc = "none"
        /\ bear_result.score >= 70

\* C17 amended: on such a series (candles one dollar either side of the
\* close, a level volume before the last two bars, the last close not below
\* the lower Bollinger band) the bear score is 44 - EMA20 20, Lower-Low 10,
\* RSI oversold 4, Volume 5, OBV 5 - because 25 candles give no EMA50, no
\* EMA200 and no MACD: the EMA50 rule awards 0 and the Death-Cross and MACD
\* rules record nothing.  The score is below 50, so the classification is
\* None.
C17_FallingSeriesBelowWatch ==
    (FallingEvaluated /\ entry = "bear" /\ chain_data.kind # "dict") =>
        /\ bear_result.exc = "none"
        /\ iloc(df, 1).c < iloc(df, 1).EMA_20[1] /\ iloc(df, 2).c < iloc(df, 2).EMA_20[1]
        /\ iloc(df, 1).v = 2 * iloc(df, 2).v
        /\ VerdictOf(bear_result, "EMA_20") = {<<"pass", 20>>}
        /\ VerdictOf(bear_result, "EMA_50") = {<<"fail", 0>>}
        /\ Keys(bear_result.reasons) \cap {"Death_Cross", "MACD"} = {}
        /\ VerdictOf(bear_result, "Lower_Low") = {<<"pass", 10>>}
        /\ VerdictOf(bear_result, "Support") = {<<"fail", 0>>}
        /\ VerdictOf(bear_result, "BB_Breakdown") = {<<"fail", 0>>}
        /\ VerdictOf(bear_result, "RSI") = {<<"partial", 4>>}
        /\ VerdictOf(bear_result, "Divergence") = {<<"fail", 0>>}
        /\ VerdictOf(bear_result, "Volume") = {<<"pass", 5>>}
        /\ VerdictOf(bear_result, "OBV") = {<<"pass", 5>>}
        /\ bear_result.score = 44
        /\ Band(bear_result.score) = "None"

\* C17 witness: the bear rule-set has evaluated a falling series whose last
\* close is 50 and returned 44.
C17_Witness ==
    /\ FallingEvaluated
    /\ entry = "bear" /\ outcome = "returned" /\ chain_data = NoChain
    /\ df[1].c = 100 /\ iloc(df, 1).c = 50
    /\ bear_result.score = 44

\* The order in which the rule table declares the entries of a breakdown.
BearOrder ==
    <<"EMA_20", "EMA_50", "Death_Cross", "Lower_Low", "Support", "BB_Breakdown", "RSI",
      "MACD", "Divergence", "Volume", "OBV", "MVRV", "SOPR", "Chain_Data">>
BullOrder ==
    <<"EMA_20", "EMA_50", "Golden_Cross", "Higher_High", "Resistance", "BB_Breakout", "RSI",
      "MACD", "Divergence", "Volume", "OBV", "MVRV", "SOPR", "Chain_Data">>

Rank(order, key) == CHOOSE i \in 1..Len(order) : order[i] = key

InTableOrder(lines, order) ==
    /\ \A i \in 1..Len(lines) : \E j \in 1..Len(order) : order[j] = lines[i].key
    /\ \A i \in 1..(Len(lines) - 1) : Rank(order, lines[i].key) < Rank(order, lines[i + 1].key)

\* C18: the message generate_alert_message builds lists the verdicts of the
\* breakdown it was given, in rule-table order, carries the score it was
\* given, and ends with the recommendation of its signal type: reduce 50-100%
\* for STRONG_BEAR, 25-50% for BEAR, raise 50-100% for STRONG_BULL, 25-50%
\* for BULL.  The message handed to Telegram is that message.
C18_MessageFollowsBreakdown ==
    (CheckReturned /\ decision.alert_message # EmptyMessage) =>
        LET m == decision.alert_message
            bearish == m.signal_type \in {"STRONG_BEAR", "BEAR"}
            r == IF bearish THEN bear_result ELSE bull_result
        IN  /\ m.signal_type \in {"STRONG_BEAR", "BEAR", "STRONG_BULL", "BULL"}
            /\ Len(m.lines) = Len(r.reasons)
            /\ \A i \in 1..Len(m.lines) : m.lines[i] \in Entries(r.reasons, Keys(r.reasons))
            /\ InTableOrder(m.lines, IF bearish THEN BearOrder ELSE BullOrder)
            /\ m.score = r.score
            /\ m.recommendation =
                  CASE m.signal_type = "STRONG_BEAR" -> "cut exposure 50-100%"
                    [] m.signal_type = "BEAR" -> "cut exposure 25-50%"
                    [] m.signal_type = "STRONG_BULL" -> "raise exposure 50-100%"
                    [] m.signal_type = "BULL" -> "raise exposure 25-50%"
            /\ telegram[1].text = m

\* C18 witness: a STRONG_BULL message listing twelve verdicts, EMA_20 first
\* and Chain_Data last, was built.
C18_Witness ==
    /\ CheckReturned
    /\ decision.alert_message.signal_type = "STRONG_BULL"
    /\ Len(decision.alert_message.lines) = 12
    /\ decision.alert_message.lines[1].key = "EMA_20"
    /\ decision.alert_message.lines[12].key = "Chain_Data"
    /\ decision.alert_message.recommendation = "raise exposure 50-100%"

\* C19: a run of check_market_signals ends either with both scores computed
\* and the decision built from them, or - when the data is short, the chain
\* metrics cannot be handled or a scoring call raises - with no decision and
\* nothing handed to Telegram or email.
C19_DecisionOrError ==
    entry = "check" =>
        \/ /\ outcome = "returned"
           /\ bear_result.exc = "none" /\ bull_result.exc = "none"
           /\ Printed("alert") \/ Printed("neutral")
           /\ decision.alert_message # EmptyMessage =>
                 \E r \in {bear_result, bull_result} :
                     /\ decision.alert_message.score = r.score
                     /\ decision.alert_message.lines = r.reasons
                     /\ r.score >= 70
        \/ /\ outcome \in {"raised", "aborted"}
           /\ bear_result.exc # "none" \/ bull_result.exc # "none"
           /\ decision = NoDecision
           /\ telegram = <<>> /\ email = <<>>

\* C19 witness: a check on a frame whose bear score is 70 or more raised
\* while handling the chain metrics and dispatched nothing.
C19_Witness ==
    /\ entry = "check" /\ outcome = "raised"
    /\ chain_data.kind = "dict"
    /\ calculate_bear_signal_score(dropna(df), columns, NoChain).score >= 70
    /\ bear_result = NotRun
    /\ telegram = <<>> /\ email = <<>>

\* C20: whatever becomes of the Telegram send (only logged, sent, failed and
\* caught), check_market_signals returns, and a high-priority alert is still
\* handed to send_email_alert, whose own failure is caught as well; other
\* alerts are not e-mailed.
C20_DispatchFailuresCaught ==
    (entry = "check" /\ telegram # <<>>) =>
        /\ outcome = "returned"
        /\ Len(telegram) = 1
        /\ decision.priority = "high" =>
              /\ Len(email) = 1
              /\ email[1].subject = decision.alert_subject
              /\ email[1].content = telegram[1].text
        /\ decision.priority # "high" => email = <<>>

\* C20 witness: the Telegram send failed, the e-mail of the high-priority
\* alert was attempted and failed too, and the check returned.
C20_Witness ==
    /\ CheckReturned
    /\ decision.priority = "high"
    /\ telegram[1].status = "failed"
    /\ Len(email) = 1 /\ email[1].status = "failed"

\* ------------------------------------------------- dip_hunter.py: the loop

MaxRounds == 2

\* Amounts of money, prices and fractions are held in thousandths.
Milli == 1000

Symbols == <<"BTC_USDT", "ETH_USDT">>

TARGETS ==
    [symbol \in {"BTC_USDT", "ETH_USDT"} |->
        IF symbol = "BTC_USDT" THEN [dip_percentage |-> -10 * Milli]
                               ELSE [dip_percentage |-> -12 * Milli]]

BUY_AMOUNT_USDT == 2500 * Milli

\* 1.15, as hundredths
TAKE_PROFIT_PERCENTAGE == 115

COOLDOWN_PERIOD_SECONDS == 24 * 60 * 60

LOOP_SLEEP_SECONDS == 5 * 60

\* time.sleep(2) after an accepted buy
FillWait == 2

\* float(s) for the strings the exchange is made to send here: the value in
\* thousandths, or ValueError.
float(s) ==
    CASE s = "-0.15"    -> [exc |-> "none", value |-> -150]
      [] s = "-0.12"    -> [exc |-> "none", value |-> -120]
      [] s = "-0.11"    -> [exc |-> "none", value |-> -110]
      [] s = "-0.10"    -> [exc |-> "none", value |-> -100]
      [] s = "0.0"      -> [exc |-> "none", value |-> 0]
      [] s = "15000.00" -> [exc |-> "none", value |-> 15000000]
      [] s = "2000.40"  -> [exc |-> "none", value |-> 2000400]
      [] OTHER          -> [exc |-> "ValueError", value |-> 0]

\* f"{x:.2f}": x (thousandths) to the nearest hundredth, as hundredths.
format_2f(x) == (x + 5) \div 10

None == [none |-> TRUE]

\* last_buy_times = {}
NoBuys == [symbol \in {"BTC_USDT", "ETH_USDT"} |-> NaN]

\* No get_market_data call yet.
NoMarketData == [symbol \in {"BTC_USDT", "ETH_USDT"} |-> [round |-> 0, ticker |-> None]]

\* client.trade.get_order raised
GetOrderRaises == [raises |-> TRUE]

\* get_market_data: None (the call raised, or no ticker came back) or the
\* ticker, with or without a change24h field.
Tickers ==
    {None, [change24h |-> NaN]}
    \cup {[change24h |-> Some(s)] : s \in {"-0.15", "-0.12", "-0.11", "-0.10", "n/a"}}

\* place_buy_order: None (the call raised), or the response with or without
\* an orderId.
BuyResponses == {None, [orderId |-> NaN], [orderId |-> Some(7)]}

\* client.trade.get_order: it raises, or the details come back with or
\* without executedQuantity and avgPrice.
OrderDetails ==
    {GetOrderRaises,
     [executedQuantity |-> NaN, avgPrice |-> Some("15000.00")],
     [executedQuantity |-> Some("0.04"), avgPrice |-> NaN],
     [executedQuantity |-> Some("0.04"), avgPrice |-> Some("n/a")],
     [executedQuantity |-> Some("0.04"), avgPrice |-> Some("15000.00")],
     [executedQuantity |-> Some("1.25"), avgPrice |-> Some("2000.40")]}

\* place_sell_order: the response, or None when the call raised.
SellResponses == {None, [orderId |-> Some(8)]}

\* The seconds between the end of one pass and the start of the next: the
\* sleep, or the sleep drawn out to a day (host suspended, calls stalled).
Elapsed == {LOOP_SLEEP_SECONDS, COOLDOWN_PERIOD_SECONDS}

\* lines 157-159
in_cooldown(symbol, current_time, lbt) ==
    /\ notna(lbt[symbol])
    /\ current_time - lbt[symbol][1] < COOLDOWN_PERIOD_SECONDS

\* lines 167-172: the change in percent (thousandths), or ValueError
change_24h(md) ==
    LET change_24h_str == IF notna(md.change24h) THEN md.change24h[1] ELSE "0.0"
        parsed == float(change_24h_str)
    IN  [parsed EXCEPT !.value = @ * 100]

\* line 177, with the trigger itself counted as a dip
dipped_Inclusive(symbol, change) ==
    change <= TARGETS[symbol].dip_percentage

\* line 177
dipped(symbol, change) ==
    change < TARGETS[symbol].dip_percentage

BuyOrder(symbol, current_time) ==
    [side |-> "BUY", type |-> "MARKET", symbol |-> symbol,
     amount |-> BUY_AMOUNT_USDT, quantity |-> "", price |-> 0,
     at |-> current_time, round |-> rounds]

SellOrder(symbol, quantity, price, current_time) ==
    [side |-> "SELL", type |-> "LIMIT", symbol |-> symbol,
     amount |-> 0, quantity |-> quantity, price |-> price,
     at |-> current_time, round |-> rounds]

\* lines 186-210: what follows an accepted buy. The sell is attempted only
\* when the details carry both fields and the price parses; the timestamp is
\* recorded right after the attempt, whatever place_sell_order returned.
after_buy(symbol, current_time, details, sell) ==
    IF details = GetOrderRaises
    THEN [sells |-> <<>>, stamped |-> FALSE]
    ELSE IF notna(details.executedQuantity) /\ notna(details.avgPrice)
    THEN LET avg_price == float(details.avgPrice[1])
         IN  IF avg_price.exc # "none"
             THEN [sells |-> <<>>, stamped |-> FALSE]
             ELSE LET take_profit_price ==
                          (avg_price.value * TAKE_PROFIT_PERCENTAGE) \div 100
                      price_str == format_2f(take_profit_price)
                  IN  [sells |-> IF sell = None THEN <<>>
                                 ELSE <<SellOrder(symbol, details.executedQuantity[1],
                                                  price_str, current_time)>>,
                       stamped |-> TRUE]
    ELSE [sells |-> <<>>, stamped |-> FALSE]

\* lines 154-213: one pass of the for loop, for one symbol.
check_symbol(symbol, current_time, lbt, md, buy, details, sell) ==
    LET skip == [fetched |-> TRUE, bought |-> FALSE, placed |-> <<>>, stamped |-> FALSE]
    IN  IF in_cooldown(symbol, current_time, lbt)
        THEN [skip EXCEPT !.fetched = FALSE]
        ELSE IF md = None THEN skip
        ELSE IF change_24h(md).exc # "none" THEN skip
        ELSE IF ~dipped(symbol, change_24h(md).value) THEN skip
        ELSE IF buy = None \/ ~notna(buy.orderId) THEN skip
        ELSE LET rest == after_buy(symbol, current_time, details, sell)
             IN  [fetched |-> TRUE, bought |-> TRUE,
                  placed |-> <<BuyOrder(symbol, current_time)>> \o rest.sells,
                  stamped |-> rest.stamped]

DipInit ==
    /\ df = <<>>
    /\ columns = AllColumns
    /\ chain_data = NoChain
    /\ entry = "none"
    /\ outcome = "none"
    /\ bear_result = NotRun
    /\ bull_result = NotRun
    /\ decision = NoDecision
    /\ telegram = <<>>
    /\ email = <<>>
    /\ pc = "start"
    /\ cursor = 1
    /\ rounds = 0
    /\ now \in {0, LOOP_SLEEP_SECONDS}
    /\ last_buy_times = NoBuys
    /\ market_data = NoMarketData
    /\ orders = <<>>

monitor == <<df, columns, chain_data, entry, outcome, bear_result, bull_result,
             decision, telegram, email>>

\* lines 142-148: without API keys there is no client and run_strategy
\* returns; with a client the loop starts with no buy on record.
StartStrategy ==
    /\ pc = "start"
    /\ \E client \in BOOLEAN :
          pc' = IF client THEN "loop" ELSE "returned"
    /\ rounds' = IF pc' = "loop" THEN 1 ELSE rounds
    /\ UNCHANGED <<cursor, now, last_buy_times, market_data, orders, monitor>>

\* lines 154-213: the loop body for the symbol under the cursor.
CheckSymbol ==
    /\ pc = "loop"
    /\ LET symbol == Symbols[cursor]
           current_time == now
           \* a call that is not made draws no response
           fetches == ~in_cooldown(symbol, current_time, last_buy_times)
           buys(md) == /\ fetches /\ md # None
                       /\ change_24h(md).exc = "none"
                       /\ dipped(symbol, change_24h(md).value)
           reads(md, buy) == buys(md) /\ buy # None /\ notna(buy.orderId)
           sells(md, buy, details) ==
               reads(md, buy) /\ after_buy(symbol, current_time, details, None).stamped
       IN  \E md \in IF fetches THEN Tickers ELSE {None} :
           \E buy \in IF buys(md) THEN BuyResponses ELSE {None} :
           \E details \in IF reads(md, buy) THEN OrderDetails ELSE {GetOrderRaises} :
           \E sell \in IF sells(md, buy, details) THEN SellResponses ELSE {None} :
          LET r == check_symbol(symbol, current_time, last_buy_times, md, buy,
                                details, sell)
          IN  /\ market_data' =
                    IF r.fetched
                    THEN [market_data EXCEPT ![symbol] = [round |-> rounds, ticker |-> md]]
                    ELSE market_data
              /\ orders' = orders \o r.placed
              /\ now' = IF r.bought THEN now + FillWait ELSE now
              /\ last_buy_times' =
                    IF r.stamped
                    THEN [last_buy_times EXCEPT ![symbol] = Some(current_time)]
                    ELSE last_buy_times
    /\ IF cursor < Len(Symbols)
       THEN cursor' = cursor + 1 /\ pc' = "loop"
       ELSE cursor' = 1 /\ pc' = "sleep"
    /\ UNCHANGED <<rounds, monitor>>

\* line 216: time.sleep(LOOP_SLEEP_SECONDS), then the next pass.
Sleep ==
    /\ pc = "sleep"
    /\ rounds < MaxRounds
    /\ \E d \in Elapsed : now' = now + d
    /\ rounds' = rounds + 1
    /\ pc' = "loop"
    /\ UNCHANGED <<cursor, last_buy_times, market_data, orders, monitor>>

DipNext == StartStrategy \/ CheckSymbol \/ Sleep

DipSpec == DipInit /\ [][DipNext]_vars

\* ------------------------------------------------- dip_hunter.py: claims

IsBuy(o) == o.side = "BUY" /\ o.type = "MARKET"

\* The take-profit order the claim requires for details d: the executed
\* quantity, at avgPrice x 1.15 to the cent.
TakeProfitFor(symbol, d) ==
    /\ d # GetOrderRaises
    /\ notna(d.executedQuantity) /\ notna(d.avgPrice)
    /\ float(d.avgPrice[1]).exc = "none"

IsTakeProfit(o, buy) ==
    /\ o.side = "SELL" /\ o.type = "LIMIT"
    /\ o.symbol = buy.symbol
    /\ o.round = buy.round
    /\ \E d \in OrderDetails :
          /\ TakeProfitFor(buy.symbol, d)
          /\ o.quantity = d.executedQuantity[1]
          /\ o.price = format_2f((float(d.avgPrice[1]).value
                                   * TAKE_PROFIT_PERCENTAGE) \div 100)

C22_EveryBuyHasTakeProfit ==
    \A i \in 1..Len(orders) :
        IsBuy(orders[i])
        => /\ i < Len(orders)
           /\ IsTakeProfit(orders[i + 1], orders[i])

\* The symbol the loop is about to check, and whether its own last buy is
\* less than a day old.
Current == Symbols[cursor]

OwnCooldown ==
    /\ notna(last_buy_times[Current])
    /\ now - last_buy_times[Current][1] < 24 * 60 * 60

\* A buy for the current symbol is accepted in this step.
BuyPlaced ==
    /\ Len(orders') > Len(orders)
    /\ IsBuy(orders'[Len(orders) + 1])
    /\ orders'[Len(orders) + 1].symbol = Current

\* The current symbol's ticker is fetched in this step.
Fetched == market_data'[Current].round = rounds /\ market_data[Current].round # rounds

\* The ticker shows a parsed change strictly below the symbol's trigger.
BelowTrigger(symbol, md) ==
    /\ md # None
    /\ LET s == IF notna(md.change24h) THEN md.change24h[1] ELSE "0.0"
       IN  \/ s = "-0.15"
           \/ s = "-0.12" /\ symbol = "BTC_USDT"
           \/ s = "-0.11" /\ symbol = "BTC_USDT"

C23_Step ==
    pc = "loop" =>
        /\ BuyPlaced => /\ ~OwnCooldown
                        /\ Fetched
                        /\ BelowTrigger(Current, market_data'[Current].ticker)
        /\ Len(orders') > Len(orders) => BuyPlaced
        /\ Fetched <=> ~OwnCooldown
        /\ pc' = IF cursor < Len(Symbols) THEN "loop" ELSE "sleep"
        /\ cursor' = IF cursor < Len(Symbols) THEN cursor + 1 ELSE 1

\* C23: a buy for a symbol is placed only when that symbol's parsed 24h
\* change is strictly below its own trigger (-10 for BTC_USDT, -12 for
\* ETH_USDT) and the symbol is not in cooldown; the cooldown is per symbol,
\* and a cooldown, a failed fetch or an unparsable change for one symbol
\* leaves the loop going: every symbol outside its own cooldown has its
\* market data fetched in every round.
C23_BuyOnlyOnOwnDip == [][C23_Step]_vars

\* In the last round BTC_USDT, bought earlier, is skipped for its cooldown
\* and ETH_USDT is fetched and bought all the same.
C23_Witness ==
    /\ pc = "sleep"
    /\ rounds = MaxRounds
    /\ notna(last_buy_times["BTC_USDT"])
    /\ now - last_buy_times["BTC_USDT"][1] < 24 * 60 * 60
    /\ market_data["BTC_USDT"].round < rounds
    /\ market_data["ETH_USDT"].round = rounds
    /\ \E i \in 1..Len(orders) :
          /\ IsBuy(orders[i])
          /\ orders[i].symbol = "ETH_USDT"
          /\ orders[i].round = rounds
    /\ \E i \in 1..Len(orders) : IsBuy(orders[i]) /\ orders[i].symbol = "BTC_USDT"

\* ------------------------------------- market_signal_monitor.py (v1): check

V1Hist == 7

\* len(df) < 10 ends the check.
MinRows == 10

V1Row(c, h, l, e20, r14, mvrv, sopr) ==
    [c |-> c, h |-> h, l |-> l, EMA_20 |-> e20, RSI_14 |-> r14,
     mvrv_z_score |-> Some(mvrv), sopr |-> Some(sopr)]

\* Weekly rows after the merge and dropna of line 93: price and both chain
\* metrics are there, the indicators may still be NaN.
Top    == V1Row(100, 110, 95, Some(90), Some(75), 6 * ChainScale, 105)
Fade   == V1Row(85, 100, 80, Some(90), Some(60), 550, 95)
Slide  == V1Row(80, 90, 75, Some(88), Some(50), 520, ChainScale)
Bottom == V1Row(40, 45, 35, Some(50), Some(25), 40, 90)
Lift   == V1Row(60, 65, 50, Some(50), Some(40), 80, 105)
Climb  == V1Row(70, 75, 60, Some(52), Some(50), ChainScale, 110)
Early  == V1Row(50, 55, 45, NaN, NaN, ChainScale, ChainScale)

V1Palette == {Top, Fade, Slide, Bottom, Lift, Climb, Early}

\* The frame: the three rows the rules read, after none or V1Hist older rows.
V1Frames ==
    {Repeat(hist, k) \o t : hist \in {Top, Bottom, Early}, k \in {0, V1Hist},
                            t \in [1..3 -> V1Palette]}

\* df.ta.ema / df.ta.rsi append their column only when the series is long
\* enough for the indicator.
V1Columns == {{}, {"RSI_14"}, {"EMA_20", "RSI_14"}}

\* One line of bearish_reasons / bullish_reasons.
Reason(ok, text, value) == [ok |-> ok, text |-> text, value |-> value]

\* df['RSI_14'].rolling(n).max().iloc[-2] > 70 / .min().iloc[-2] < 30: the
\* window is rows -(n+1) .. -2; a NaN in it, or a window reaching past the
\* first row, makes the comparison False.
RECURSIVE rolling(_, _, _)
rolling(d, n, k) ==
    IF k > n + 1 THEN <<>>
    ELSE <<IF k <= Len(d) THEN iloc(d, k).RSI_14 ELSE NaN>> \o rolling(d, n, k + 1)

rsi_was_overbought(d) ==
    LET w == rolling(d, 4, 2)
    IN  /\ \A i \in 1..Len(w) : notna(w[i])
        /\ \E i \in 1..Len(w) : w[i][1] > 70

rsi_was_oversold(d) ==
    LET w == rolling(d, 8, 2)
    IN  /\ \A i \in 1..Len(w) : notna(w[i])
        /\ \E i \in 1..Len(w) : w[i][1] < 30

\* line 114, asking for the latest bar only
bull_to_bear_primary_OneBar(latest, prev1) ==
    lt(Some(latest.c), latest.EMA_20)

\* line 114
bull_to_bear_primary(latest, prev1) ==
    lt(Some(latest.c), latest.EMA_20) /\ lt(Some(prev1.c), prev1.EMA_20)

\* lines 117-147
bearish_confirmations(d) ==
    LET latest == iloc(d, 1)
        prev1 == iloc(d, 2)
        structure == latest.l < prev1.l
        mvrv == /\ latest.mvrv_z_score[1] > 5 * ChainScale
                /\ latest.mvrv_z_score[1] < prev1.mvrv_z_score[1]
        sopr == latest.sopr[1] < ChainScale
        momentum == rsi_was_overbought(d) /\ lt(latest.RSI_14, prev1.RSI_14)
        one(b) == IF b THEN 1 ELSE 0
    IN  [confirmations |-> one(structure) + one(mvrv) + one(sopr) + one(momentum),
         reasons |->
           << Reason(structure,
                     IF structure THEN "Market Structure: Lower Low"
                                  ELSE "Market Structure: No Lower Low", NaN),
              Reason(mvrv,
                     IF mvrv THEN "MVRV Z-Score: High & Falling"
                             ELSE "MVRV Z-Score: Not High & Falling",
                     latest.mvrv_z_score),
              Reason(sopr,
                     IF sopr THEN "aSOPR: Below 1.0" ELSE "aSOPR: Above 1.0",
                     latest.sopr),
              Reason(momentum,
                     IF momentum THEN "RSI: Falling from Overbought"
                            ELSE "RSI: Not Falling from Overbought",
                     latest.RSI_14) >>]

\* line 151
bear_to_bull_primary(latest, prev1, prev2) ==
    /\ gt(Some(latest.c), latest.EMA_20)
    /\ gt(Some(prev1.c), prev1.EMA_20)
    /\ gt(Some(prev2.c), prev2.EMA_20)

\* lines 154-184
bullish_confirmations(d) ==
    LET latest == iloc(d, 1)
        prev1 == iloc(d, 2)
        structure == latest.h > prev1.h
        mvrv == /\ 2 * latest.mvrv_z_score[1] > ChainScale
                /\ latest.mvrv_z_score[1] > prev1.mvrv_z_score[1]
        sopr == latest.sopr[1] > ChainScale
        momentum == rsi_was_oversold(d) /\ gt(latest.RSI_14, prev1.RSI_14)
        one(b) == IF b THEN 1 ELSE 0
    IN  [confirmations |-> one(structure) + one(mvrv) + one(sopr) + one(momentum),
         reasons |->
           << Reason(structure,
                     IF structure THEN "Market Structure: Higher High"
                                  ELSE "Market Structure: No Higher High", NaN),
              Reason(mvrv,
                     IF mvrv THEN "MVRV Z-Score: Rising from Bottom"
                             ELSE "MVRV Z-Score: Not Rising from Bottom",
                     latest.mvrv_z_score),
              Reason(sopr,
                     IF sopr THEN "aSOPR: Above 1.0" ELSE "aSOPR: Below 1.0",
                     latest.sopr),
              Reason(momentum,
                     IF momentum THEN "RSI: Rising from Oversold"
                            ELSE "RSI: Not Rising from Oversold",
                     latest.RSI_14) >>]

BullToBear == "STRATEGIC ALERT: Bull-to-Bear Signal DETECTED!"
BearToBull == "STRATEGIC ALERT: Bear-to-Bull Signal DETECTED!"

\* lines 187-210: alert_subject and alert_message.
final_decision(d) ==
    LET latest == iloc(d, 1)
        prev1 == iloc(d, 2)
        prev2 == iloc(d, 3)
        bear == bearish_confirmations(d)
        bull == bullish_confirmations(d)
    IN  IF bull_to_bear_primary(latest, prev1) /\ bear.confirmations >= 2
        THEN [alert_subject |-> BullToBear, priority |-> "",
              alert_message |->
                [signal_type |-> "Bull-to-Bear", title |-> BullToBear,
                 price |-> latest.c, score |-> bear.confirmations,
                 lines |-> bear.reasons,
                 recommendation |-> "Initiate 'Strategic Contraction' phase"],
              printed |-> <<"alert">>]
        ELSE IF bear_to_bull_primary(latest, prev1, prev2) /\ bull.confirmations >= 2
        THEN [alert_subject |-> BearToBull, priority |-> "",
              alert_message |->
                [signal_type |-> "Bear-to-Bull", title |-> BearToBull,
                 price |-> latest.c, score |-> bull.confirmations,
                 lines |-> bull.reasons,
                 recommendation |-> "Initiate 'Strategic Trend Deployment' phase"],
              printed |-> <<"alert">>]
        ELSE [alert_subject |-> "", priority |-> "",
              alert_message |-> EmptyMessage, printed |-> <<"neutral">>]

\* v1 send_telegram_message: not configured -> skipped; a RequestException
\* is caught and printed (lines 19-33).
send_telegram_message_v1(message, t) ==
    [exc |-> "none", handed |-> <<[text |-> message, status |-> t]>>]

\* v1 send_email_alert: not configured -> skipped; every Exception is caught
\* and printed (lines 37-54).
send_email_alert_v1(subject, content, e) ==
    [exc |-> "none",
     handed |-> <<[subject |-> subject, content |-> content, status |-> e]>>]

V1Init ==
    /\ df \in V1Frames
    /\ columns \in V1Columns
    /\ chain_data = NoChain
    /\ entry = "none"
    /\ outcome = "none"
    /\ bear_result = NotRun
    /\ bull_result = NotRun
    /\ decision = NoDecision
    /\ telegram = <<>>
    /\ email = <<>>
    /\ TraderOff

\* lines 81-87, 101-103: one of the three Glassnode fetches returned None,
\* or fewer than 10 rows are left after the merge.
V1CheckAborts ==
    /\ entry = "none"
    /\ \E price_df \in BOOLEAN, mvrv_df \in BOOLEAN, sopr_df \in BOOLEAN :
          \/ ~price_df \/ ~mvrv_df \/ ~sopr_df
          \/ Len(df) < MinRows
    /\ entry' = "v1 check"
    /\ outcome' = "aborted"
    /\ UNCHANGED <<df, columns, chain_data, bear_result, bull_result, decision,
                   telegram, email, trader>>

\* V1CheckCompletes without the row count test of line 101.
V1CheckCompletes_AnyLength ==
    /\ entry = "none"
    /\ {"EMA_20", "RSI_14"} \subseteq columns
    /\ entry' = "v1 check"
    /\ outcome' = "returned"
    /\ bear_result' = Returned(bearish_confirmations(df).confirmations, bearish_confirmations(df).reasons)
    /\ bull_result' = Returned(bullish_confirmations(df).confirmations, bullish_confirmations(df).reasons)
    /\ decision' = final_decision(df)
    /\ telegram' = IF decision'.alert_message # EmptyMessage
                   THEN <<[text |-> decision'.alert_message, status |-> "sent"]>>
                   ELSE <<>>
    /\ email' = <<>>
    /\ UNCHANGED <<df, columns, chain_data, trader>>

\* lines 108-114: with 10 rows or more but no EMA_20 (or RSI_14) column the
\* first read of the column raises KeyError.
V1CheckRaises ==
    /\ entry = "none"
    /\ Len(df) >= MinRows
    /\ ~({"EMA_20", "RSI_14"} \subseteq columns)
    /\ entry' = "v1 check"
    /\ outcome' = "raised"
    /\ UNCHANGED <<df, columns, chain_data, bear_result, bull_result, decision,
                   telegram, email, trader>>

\* lines 105-217: the dashboard logic, the decision and the dispatch.
V1CheckCompletes ==
    /\ entry = "none"
    /\ Len(df) >= MinRows
    /\ {"EMA_20", "RSI_14"} \subseteq columns
    /\ entry' = "v1 check"
    /\ outcome' = "returned"
    /\ bear_result' = Returned(bearish_confirmations(df).confirmations, bearish_confirmations(df).reasons)
    /\ bull_result' = Returned(bullish_confirmations(df).confirmations, bullish_confirmations(df).reasons)
    /\ decision' = final_decision(df)
    /\ IF decision'.alert_message # EmptyMessage
       THEN \E t \in Delivery, e \in Delivery :
               /\ telegram' = send_telegram_message_v1(decision'.alert_message, t).handed
               /\ email' = send_email_alert_v1(decision'.alert_subject,
                                               decision'.alert_message, e).handed
       ELSE telegram' = <<>> /\ email' = <<>>
    /\ UNCHANGED <<df, columns, chain_data, trader>>

V1Next == V1CheckAborts \/ V1CheckRaises \/ V1CheckCompletes

V1Spec == V1Init /\ [][V1Next]_vars

\* Both monitors: a frame built by the v1 monitor (it carries the chain
\* metrics as columns) is checked by v1, any other frame by v2.
BuiltByV1 == df # <<>> /\ "sopr" \in DOMAIN df[1]

MonitorsNext == (BuiltByV1 /\ V1Next) \/ (~BuiltByV1 /\ Next)

MonitorsSpec == (Init \/ V1Init) /\ [][MonitorsNext]_vars

\* ------------------------------------------ market_signal_monitor.py: claims

V1Returned == entry = "v1 check" /\ outcome = "returned"

Met(reasons) == Cardinality({i \in 1..Len(reasons) : reasons[i].ok})

\* close < EMA_20 on the latest two bars / close > EMA_20 on the latest three
BelowTwo ==
    \A k \in 1..2 : notna(iloc(df, k).EMA_20) /\ iloc(df, k).c < iloc(df, k).EMA_20[1]

AboveThree ==
    \A k \in 1..3 : notna(iloc(df, k).EMA_20) /\ iloc(df, k).c > iloc(df, k).EMA_20[1]

Alerted(subject) ==
    /\ Len(telegram) = 1 /\ telegram[1].text.title = subject
    /\ Len(email) = 1 /\ email[1].subject = subject
    /\ email[1].content = telegram[1].text

\* C24: a v1 check sends at most one alert: Bull-to-Bear iff the close is
\* below EMA_20 on the latest two bars and at least 2 of the 4 bearish
\* confirmations hold; otherwise Bear-to-Bull iff the close is above EMA_20 on
\* the latest three bars and at least 2 of the 4 bullish confirmations hold;
\* otherwise none. The counters stay in 0..4, each reasons list has exactly 4
\* entries, and an alert goes to both Telegram and email.
C24_OneAlertPerCheck ==
    V1Returned =>
        LET bear == BelowTwo /\ Met(bear_result.reasons) >= 2
            bull == ~bear /\ AboveThree /\ Met(bull_result.reasons) >= 2
        IN  /\ Len(telegram) <= 1 /\ Len(email) <= 1
            /\ Len(telegram) = Len(email)
            /\ bear <=> Alerted(BullToBear)
            /\ bull <=> Alerted(BearToBull)
            /\ (~bear /\ ~bull) <=> (telegram = <<>> /\ email = <<>>)
            /\ bear_result.score \in 0..4 /\ bull_result.score \in 0..4
            /\ bear_result.score = Met(bear_result.reasons)
            /\ bull_result.score = Met(bull_result.reasons)
            /\ Len(bear_result.reasons) = 4 /\ Len(bull_result.reasons) = 4
            /\ telegram # <<>> =>
                  telegram[1].text.lines =
                      IF bear THEN bear_result.reasons ELSE bull_result.reasons

\* A Bull-to-Bear alert went to both channels although the e-mail failed.
C24_Witness ==
    /\ V1Returned
    /\ Alerted(BullToBear)
    /\ bear_result.score = 3
    /\ email[1].status = "failed"

Untouched ==
    /\ bear_result = NotRun
    /\ bull_result = NotRun
    /\ decision = NoDecision
    /\ telegram = <<>>
    /\ email = <<>>

\* C26: a v2 check whose price fetch failed or brought fewer than 50 candles
\* returns without indicators, scores or dispatch; a v1 check likewise ends
\* without any alert when one of the three fetches failed or fewer than 10
\* rows remain.
C26_AbortedChecksDoNothing ==
    /\ (entry = "check" /\ Len(df) < MinCandles) => outcome = "aborted"
    /\ (entry = "v1 check" /\ Len(df) < MinRows) => outcome = "aborted"
    /\ (entry \in {"check", "v1 check"} /\ outcome = "aborted") => Untouched

\* A v1 check aborted on a failed fetch, over a frame that would have raised
\* the Bull-to-Bear alert.
C26_Witness ==
    /\ entry = "v1 check"
    /\ outcome = "aborted"
    /\ Len(df) >= MinRows
    /\ {"EMA_20", "RSI_14"} \subseteq columns
    /\ BelowTwo
    /\ bearish_confirmations(df).confirmations >= 2

\* ------------------------------------------- v2 monitor: dispatch and bounds

Dispatched == CheckReturned /\ decision.alert_message # EmptyMessage

\* The result of the regime whose message is in the alert.
MessageRegime ==
    IF decision.alert_message.signal_type \in {"STRONG_BEAR", "BEAR"}
    THEN bear_result ELSE bull_result

\* C25: every dispatched alert goes to Telegram, and it goes to email as well
\* if and only if it is a Strong one (the score of the regime whose message is
\* sent is >= 90); a Confirmed alert is never emailed.
C25_EmailOnlyForStrong ==
    CheckReturned =>
        /\ Dispatched <=> telegram # <<>>
        /\ Dispatched =>
              /\ Len(telegram) = 1
              /\ telegram[1].text = decision.alert_message
              /\ email # <<>> <=> MessageRegime.score >= 90
              /\ email # <<>> =>
                    /\ Len(email) = 1
                    /\ email[1].content = decision.alert_message
                    /\ email[1].subject = decision.alert_subject
        /\ ~Dispatched => email = <<>>

\* A Confirmed bear alert reached Telegram and no e-mail was written.
C25_Witness ==
    /\ Dispatched
    /\ decision.alert_message.signal_type = "BEAR"
    /\ bear_result.score \in 70..89
    /\ Len(telegram) = 1 /\ telegram[1].status = "sent"
    /\ email = <<>>

\* Every candle of the frame has 0 < low <= close <= high.
ValidCandles(f) == \A i \in 1..Len(f) : 0 < f[i].l /\ f[i].l <= f[i].c /\ f[i].c <= f[i].h

\* C27: on a series whose candles all satisfy 0 < low <= close <= high the
\* bear Support rule and the bull Resistance rule award 0 points (the 20-bar
\* extreme includes the latest bar), so neither score exceeds 92.
C27_SupportResistanceNeverScore ==
    /\ (DirectCall /\ outcome = "returned" /\ ValidCandles(df)) =>
          /\ entry = "bear" => VerdictOf(bear_result, "Support") = {<<"fail", 0>>}
          /\ entry = "bull" => VerdictOf(bull_result, "Resistance") = {<<"fail", 0>>}
          /\ DirectResult.score <= 92
    /\ (CheckReturned /\ ValidCandles(df)) =>
          /\ VerdictOf(bear_result, "Support") = {<<"fail", 0>>}
          /\ VerdictOf(bull_result, "Resistance") = {<<"fail", 0>>}
          /\ bear_result.score <= 92 /\ bull_result.score <= 92

\* A bear call on valid candles whose latest close is more than 2% below
\* every earlier low of the window: the Support rule still awarded nothing.
C27_Witness ==
    /\ entry = "bear" /\ outcome = "returned"
    /\ ValidCandles(df)
    /\ Len(df) > SupportWindow
    /\ \A k \in 2..SupportWindow : 100 * iloc(df, 1).c < 98 * iloc(df, k).l
    /\ VerdictOf(bear_result, "Support") = {<<"fail", 0>>}
    /\ bear_result.score >= 50

\* The two rule-sets on the inputs of the state.
BearHere == calculate_bear_signal_score(df, columns, chain_data)
BullHere == calculate_bull_signal_score(df, columns, chain_data)

\* Rules of the two sets that test the same quantity in opposite directions.
OpposedRules ==
    {<<"EMA_50", "EMA_50">>, <<"Death_Cross", "Golden_Cross">>,
     <<"Support", "Resistance">>, <<"BB_Breakdown", "BB_Breakout">>,
     <<"MACD", "MACD">>, <<"OBV", "OBV">>}

\* C28: on the same series (positive prices, low <= high) and chain metrics
\* the bear and the bull score are never both >= 70 - opposed rules never
\* both award points - hence the bull branch of check_market_signals never
\* replaces a bear alert message.
C28_NeverBothConfirmed ==
    /\ (DirectCall /\ outcome = "returned"
            /\ BearHere.exc = "none" /\ BullHere.exc = "none") =>
          /\ ~(BearHere.score >= 70 /\ BullHere.score >= 70)
          /\ \A p \in OpposedRules :
                PointsOf(BearHere, p[1]) = 0 \/ PointsOf(BullHere, p[2]) = 0
    /\ CheckReturned =>
          /\ ~(bear_result.score >= 70 /\ bull_result.score >= 70)
          /\ \A p \in OpposedRules :
                PointsOf(bear_result, p[1]) = 0 \/ PointsOf(bull_result, p[2]) = 0
          /\ bear_result.score >= 70 =>
                /\ decision.alert_message.signal_type \in {"STRONG_BEAR", "BEAR"}
                /\ decision.alert_message.score = bear_result.score

\* A check with a bear score of 70 or more and a bull score of 20 or more
\* sent the bear message.
C28_Witness ==
    /\ CheckReturned
    /\ bear_result.score >= 70
    /\ bull_result.score >= 20
    /\ decision.alert_message.signal_type \in {"STRONG_BEAR", "BEAR"}
    /\ telegram # <<>>

\* C29: in a dispatched alert subject, priority and message come from the
\* same regime and band: STRONG_BEAR / STRONG_BULL iff priority high iff that
\* regime's score is >= 90, BEAR / BULL iff priority medium iff that score is
\* in [70, 90), and the message carries that regime's score and breakdown.
C29_AlertIsOfOneRegime ==
    Dispatched =>
        LET m == decision.alert_message
            r == MessageRegime
        IN  /\ m.signal_type \in {"STRONG_BEAR", "BEAR", "STRONG_BULL", "BULL"}
            /\ m.signal_type \in {"STRONG_BEAR", "STRONG_BULL"} <=> decision.priority = "high"
            /\ decision.priority = "high" <=> r.score >= 90
            /\ m.signal_type \in {"BEAR", "BULL"} <=> decision.priority = "medium"
            /\ decision.priority = "medium" <=> r.score \in 70..89
            /\ decision.alert_subject =
                  CASE m.signal_type = "STRONG_BEAR" -> "strong bear"
                    [] m.signal_type = "BEAR" -> "bear"
                    [] m.signal_type = "STRONG_BULL" -> "strong bull"
                    [] m.signal_type = "BULL" -> "bull"
            /\ m.score = r.score
            /\ m.lines = r.reasons

\* A Strong bull alert: priority high, the bull subject, the bull breakdown,
\* and the e-mail under that subject.
C29_Witness ==
    /\ Dispatched
    /\ decision.alert_message.signal_type = "STRONG_BULL"
    /\ decision.priority = "high"
    /\ bull_result.score >= 90
    /\ bear_result.score > 0
    /\ Len(email) = 1 /\ email[1].subject = "strong bull"

\* The bands in which the chain rules of a rule-set both award their points.
BearChainBand ==
    /\ notna(chain_data.mvrv_z_score) /\ chain_data.mvrv_z_score[1] > 5 * ChainScale
    /\ notna(chain_data.sopr)
    /\ 0 < chain_data.sopr[1] /\ chain_data.sopr[1] < ChainScale

BullChainBand ==
    /\ notna(chain_data.mvrv_z_score)
    /\ 2 * chain_data.mvrv_z_score[1] > ChainScale
    /\ chain_data.mvrv_z_score[1] < 2 * ChainScale
    /\ notna(chain_data.sopr) /\ chain_data.sopr[1] > ChainScale

====
